---- MODULE Spec2Model ----
(***************************************************************************)
(* Model of the distributed-sync-system cluster: the Raft engine           *)
(* (src/src/consensus/raft.py), the lock state machine and its leader-side *)
(* admission (src/src/nodes/lock_manager.py) and the PBFT engine           *)
(* (src/src/consensus/pbft.py).                                            *)
(*                                                                         *)
(* Every node is one asyncio process.  A handler runs atomically up to its *)
(* next suspension point (an RPC to a peer or a sleep); the model has one  *)
(* action per such step.  An RPC is two steps: the peer's handler runs on  *)
(* the payload the sender built when it started the call, and later the    *)
(* sender consumes the reply.  The election timer, the vote round started  *)
(* by an expired timer, the heartbeat loop and the commit monitor are      *)
(* tasks of the RaftConsensus object and are fields of the node record.    *)
(*                                                                         *)
(* Modelling limits: at most one vote round and one heartbeat loop are in  *)
(* flight per node, and a failed RPC is either never delivered or loses    *)
(* its reply (it is not delivered after the sender gave up).  Host names   *)
(* equal node ids and every node listens on its own port, so that peers is *)
(* all_nodes without the node itself.                                      *)
(***************************************************************************)
EXTENDS Integers, Sequences, FiniteSets, TLC

\* ---------------------------------------------------------------- bounds
\* Spec: the cluster as main.py deploys it, every task step interleaved.
MaxTimeouts == 2
MaxErrors == 1
MaxLog == 1
\* SpecApply: vote rounds interleaved, heartbeat rounds run to completion,
\* commit monitors activated.
ApplyMaxTimeouts == 2
ApplyMaxErrors == 1
ApplyMaxLog == 1
\* SpecSkip: as SpecApply with longer logs and the commit monitor of at most
\* SkipMaxActive nodes.
SkipMaxTimeouts == 2
SkipMaxErrors == 1
SkipMaxLog == 2
SkipMaxActive == 1
\* SpecTerms: as SpecApply over more terms, without commit monitors.
TermsMaxTimeouts == 3
TermsMaxErrors == 1
TermsMaxLog == 1
\* SpecLock: the lock manager over elections and heartbeat rounds that run
\* to completion.
LockMaxTerm == 2
LockMaxLog == 2
MaxWaiters == 1
\* SpecDeadlock: as SpecLock over more terms, exclusive requests only.
DeadlockMaxTerm == 3
DeadlockMaxLog == 2
\* SpecHandlers: terms and log lengths of the engines put into a state.
HandlersMaxTerm == 2
HandlersMaxLog == 2
\* SpecLive: the deployed cluster with every peer reachable.
LiveMaxTerm == 2
LiveMaxLog == 1
\* SpecPBFT: sequence numbers and client requests.
MaxSequence == 1
Requests == {"r1"}
Responsive == {1}
MaxForged == 1
\* SpecIsolation: calls of the simulate-byzantine endpoint, and where.
IsolationMaxForged == 3
Simulating == {2}
\* SpecEquivocation: the Byzantine replicas (the primary of view 0), the
\* requests they propose and the messages they send.
Byzantine == {1}
EquivocationRequests == {"r1", "r2"}
EquivocationMaxForged == 3
\* SpecQuorum: the nodes listed in ALL_NODES.
MaxClusterSize == 13
\* SpecSignature: the fields of the messages signed.
MaxView == 1
SignedTypes == {"prepare", "commit", "prepare:0"}
SignedDigests == {"x", "1:x"}
\* SpecTable: calls of apply_lock_command, and the process they run in.
TableMaxApplied == 3
TableNodes == {1}
\* SpecSlow: the replicas that serve their backlog in any order.
Slow == {4}
\* SpecQueue: as SpecTable in the process of a Leader, which also queues
\* its own requests.
QueueMaxWaiters == 2
\* SpecPrePrepare: the pre-prepare messages posted to /pbft/message, the
\* node_id they carry and how many are posted.
PostedSenders == {1, 2}
PrePrepareMaxPosted == 1
\* SpecPoll: as SpecLock, the acquire handlers waiting for their grant; the
\* handler looks at the lock table PollAttempts times (50 in the code).
PollMaxTerm == 1
PollMaxLog == 2
PollAttempts == 2

\* ---------------------------------------------------------- configuration
None == 0
all_nodes == <<1, 2, 3>>
Nodes == {all_nodes[i] : i \in 1..Len(all_nodes)}
total_nodes == Len(all_nodes)
Peers(n) == SelectSeq(all_nodes, LAMBDA m : m # n)

LockNames == {"A", "B"}
LockTypes == {"shared", "exclusive"}

Max(S) == CHOOSE x \in S : \A y \in S : y <= x
Min2(a, b) == IF a < b THEN a ELSE b
Max2(a, b) == IF a < b THEN b ELSE a

\* raft[n]: the RaftConsensus object of node n and its tasks;
\* lock_table[n], wait_for_graph[n]: the globals of lock_manager.py in the
\* process of node n; applied[n]: the calls of the apply callback at n;
\* committed: the entries a leader's commit_index advanced over; http: the
\* answer of the lock endpoint that ran in the last step, if one did; env:
\* timer expiries, transport errors and messages of faulty replicas so far.
\* pbft[n]: the PBFTConsensus object of replica n and its suspended calls;
\* net: the PBFT messages in flight; polls[n]: the acquire handler of node n
\* that waits for its grant, or its answer.
VARIABLES raft, lock_table, wait_for_graph, applied, committed, http, env, pbft, net, polls

vars == <<raft, lock_table, wait_for_graph, applied, committed, http, env, pbft, net, polls>>

\* ------------------------------------------------------------ Raft: tasks
NoVoteReq == [term |-> 0, candidate_id |-> None, last_log_index |-> 0, last_log_term |-> 0]
NoVoteResp == [term |-> 0, vote_granted |-> FALSE]
NoVoteRound == [pc |-> "none", idx |-> 0, votes |-> 0, cancel |-> FALSE,
                stage |-> "req", req |-> NoVoteReq, resp |-> NoVoteResp]

NoAppendReq == [term |-> 0, leader_id |-> None, entries |-> <<>>, prev_log_index |-> 0,
                prev_log_term |-> 0, leader_commit |-> 0]
NoAppendResp == [term |-> 0, success |-> FALSE]
NoHeartbeat == [pc |-> "none", idx |-> 0, cancel |-> FALSE,
                stage |-> "req", req |-> NoAppendReq, resp |-> NoAppendResp]

\* RaftConsensus.__init__
RaftInit ==
    [state |-> "FOLLOWER", current_term |-> 0, voted_for |-> None, log |-> <<>>,
     commit_index |-> 0, last_applied |-> 0, leader_id |-> None,
     next_index |-> [p \in Nodes |-> 1], match_index |-> [p \in Nodes |-> 0],
     election_timer |-> FALSE, commit_monitor |-> FALSE, started |-> FALSE,
     heartbeat |-> NoHeartbeat, vote_round |-> NoVoteRound]

_get_last_log_index(r) == Len(r.log)
_get_last_log_term(r) == IF r.log # <<>> THEN r.log[Len(r.log)].term ELSE 0

\* reset_election_timer: the pending timer is cancelled and, unless the
\* node is Leader, a new one is armed.
reset_election_timer(r) == [r EXCEPT !.election_timer = (r.state # "LEADER")]

\* Task.cancel() on the heartbeat task: a task that has not started or that
\* sleeps ends; a task suspended in an RPC gets CancelledError inside the
\* try block of _send_append_entries, where the bare except swallows it.
CancelHeartbeat(h) == IF h.pc = "rpc" THEN [h EXCEPT !.cancel = TRUE] ELSE NoHeartbeat

\* _transition_to_follower without the assignment to state at line 228.
_transition_to_follower_in_role(r, term) ==
    LET r1 == [r EXCEPT !.current_term = term, !.voted_for = None]
        r2 == reset_election_timer(r1)
    IN [r2 EXCEPT !.heartbeat = CancelHeartbeat(r.heartbeat)]

_transition_to_follower(r, term) ==
    LET r1 == [r EXCEPT !.state = "FOLLOWER", !.current_term = term, !.voted_for = None]
        r2 == reset_election_timer(r1)
    IN [r2 EXCEPT !.heartbeat = CancelHeartbeat(r.heartbeat)]

_transition_to_leader(r, n) ==
    [r EXCEPT !.state = "LEADER",
              !.leader_id = n,
              !.next_index = [p \in Nodes |-> IF p # n THEN Len(r.log) + 1 ELSE r.next_index[p]],
              !.match_index = [p \in Nodes |-> IF p # n THEN 0 ELSE r.match_index[p]],
              !.election_timer = FALSE,
              !.heartbeat = [NoHeartbeat EXCEPT !.pc = "start"]]

\* ------------------------------------------------------- Raft: handlers
\* The comparison of lines 125-126 on the log lengths alone.
VoteLogOkByLength(r, m) == m.last_log_index >= _get_last_log_index(r)

\* log_ok of lines 125-126.
VoteLogOk(r, m) ==
    \/ m.last_log_term > _get_last_log_term(r)
    \/ (m.last_log_term = _get_last_log_term(r) /\ m.last_log_index >= _get_last_log_index(r))

\* handle_request_vote without the test of voted_for at line 128.
handle_request_vote_revote(r, m) ==
    IF m.term < r.current_term
    THEN [node |-> r, resp |-> [term |-> r.current_term, vote_granted |-> FALSE]]
    ELSE LET r1 == IF m.term > r.current_term THEN _transition_to_follower(r, m.term) ELSE r
         IN IF VoteLogOk(r1, m)
            THEN [node |-> reset_election_timer([r1 EXCEPT !.voted_for = m.candidate_id]),
                  resp |-> [term |-> r1.current_term, vote_granted |-> TRUE]]
            ELSE [node |-> r1, resp |-> [term |-> r1.current_term, vote_granted |-> FALSE]]

handle_request_vote(r, m) ==
    IF m.term < r.current_term
    THEN [node |-> r, resp |-> [term |-> r.current_term, vote_granted |-> FALSE]]
    ELSE LET r1 == IF m.term > r.current_term THEN _transition_to_follower(r, m.term) ELSE r
         IN IF (r1.voted_for = None \/ r1.voted_for = m.candidate_id) /\ VoteLogOk(r1, m)
            THEN [node |-> reset_election_timer([r1 EXCEPT !.voted_for = m.candidate_id]),
                  resp |-> [term |-> r1.current_term, vote_granted |-> TRUE]]
            ELSE [node |-> r1, resp |-> [term |-> r1.current_term, vote_granted |-> FALSE]]

\* handle_append_entries without the test of entries at line 213: the log is
\* cut at prev_log_index by every successful call.
handle_append_entries_truncating(r, m) ==
    IF m.term < r.current_term
    THEN [node |-> r, resp |-> [term |-> r.current_term, success |-> FALSE]]
    ELSE LET r1 == [reset_election_timer(r) EXCEPT !.leader_id = m.leader_id]
             r2 == IF m.term > r1.current_term THEN _transition_to_follower(r1, m.term) ELSE r1
         IN IF /\ m.prev_log_index > 0
               /\ \/ m.prev_log_index > Len(r2.log)
                  \/ r2.log[m.prev_log_index].term # m.prev_log_term
            THEN [node |-> r2, resp |-> [term |-> r2.current_term, success |-> FALSE]]
            ELSE LET r3 == [r2 EXCEPT !.log = SubSeq(r2.log, 1, m.prev_log_index) \o m.entries]
                     r4 == IF m.leader_commit > r3.commit_index
                           THEN [r3 EXCEPT !.commit_index = Min2(m.leader_commit, Len(r3.log))]
                           ELSE r3
                 IN [node |-> r4, resp |-> [term |-> r4.current_term, success |-> TRUE]]

\* handle_append_entries without the consistency check of lines 209-211.
handle_append_entries_unchecked(r, m) ==
    IF m.term < r.current_term
    THEN [node |-> r, resp |-> [term |-> r.current_term, success |-> FALSE]]
    ELSE LET r1 == [reset_election_timer(r) EXCEPT !.leader_id = m.leader_id]
             r2 == IF m.term > r1.current_term THEN _transition_to_follower(r1, m.term) ELSE r1
             r3 == IF m.entries # <<>>
                   THEN [r2 EXCEPT !.log = SubSeq(r2.log, 1, Min2(m.prev_log_index, Len(r2.log)))
                                              \o m.entries]
                   ELSE r2
             r4 == IF m.leader_commit > r3.commit_index
                   THEN [r3 EXCEPT !.commit_index = Min2(m.leader_commit, Len(r3.log))]
                   ELSE r3
         IN [node |-> r4, resp |-> [term |-> r4.current_term, success |-> TRUE]]

handle_append_entries(r, m) ==
    IF m.term < r.current_term
    THEN [node |-> r, resp |-> [term |-> r.current_term, success |-> FALSE]]
    ELSE LET r1 == [reset_election_timer(r) EXCEPT !.leader_id = m.leader_id]
             r2 == IF m.term > r1.current_term THEN _transition_to_follower(r1, m.term) ELSE r1
         IN IF /\ m.prev_log_index > 0
               /\ \/ m.prev_log_index > Len(r2.log)
                  \/ r2.log[m.prev_log_index].term # m.prev_log_term
            THEN [node |-> r2, resp |-> [term |-> r2.current_term, success |-> FALSE]]
            ELSE LET r3 == IF m.entries # <<>>
                           THEN [r2 EXCEPT !.log = SubSeq(r2.log, 1, m.prev_log_index) \o m.entries]
                           ELSE r2
                     r4 == IF m.leader_commit > r3.commit_index
                           THEN [r3 EXCEPT !.commit_index = Min2(m.leader_commit, Len(r3.log))]
                           ELSE r3
                 IN [node |-> r4, resp |-> [term |-> r4.current_term, success |-> TRUE]]

\* ----------------------------------------------------- Raft: vote round
\* The loop of _transition_to_candidate from peer number idx on: the
\* payload is built from the node's state at that moment; after the last
\* peer the tally decides.
VoteRoundNext(r, n, idx, votes) ==
    IF idx <= Len(Peers(n))
    THEN [r EXCEPT !.vote_round =
             [pc |-> "rpc", idx |-> idx, votes |-> votes, cancel |-> FALSE, stage |-> "req",
              req |-> [term |-> r.current_term, candidate_id |-> n,
                       last_log_index |-> _get_last_log_index(r),
                       last_log_term |-> _get_last_log_term(r)],
              resp |-> NoVoteResp]]
    ELSE LET r1 == [r EXCEPT !.vote_round = NoVoteRound]
         IN IF votes > total_nodes \div 2 THEN _transition_to_leader(r1, n) ELSE r1

\* _transition_to_candidate with the tally of line 91 starting at 0: the
\* candidate's own vote is not counted.
_transition_to_candidate_uncounted(r, n) ==
    LET r1 == [r EXCEPT !.state = "CANDIDATE", !.current_term = r.current_term + 1, !.voted_for = n]
        r2 == VoteRoundNext(reset_election_timer(r1), n, 1, 0)
    IN [r2 EXCEPT !.vote_round.cancel = (r2.vote_round.pc = "rpc")]

\* _election_timeout_handler fires, _transition_to_candidate runs up to its
\* first RPC.  reset_election_timer cancels the task that is running this
\* very code, so the first RPC of the round is cancelled.
_transition_to_candidate(r, n) ==
    LET r1 == [r EXCEPT !.state = "CANDIDATE", !.current_term = r.current_term + 1, !.voted_for = n]
        r2 == VoteRoundNext(reset_election_timer(r1), n, 1, 1)
    IN [r2 EXCEPT !.vote_round.cancel = (r2.vote_round.pc = "rpc")]

\* ------------------------------------------------- Raft: heartbeat round
\* Lines 187-197: the highest N above commit_index of the current term that
\* a majority (the leader included) stores.
\* CommitTest without the comparison of the entry's term with current_term.
CommitTestAnyTerm(r, peers, total, k) ==
    1 + Cardinality({p \in peers : r.match_index[p] >= k}) > total \div 2

\* The test of lines 188-195 for index k in a cluster of total nodes.
CommitTest(r, peers, total, k) ==
    /\ r.log[k].term = r.current_term
    /\ 1 + Cardinality({p \in peers : r.match_index[p] >= k}) > total \div 2

CommitCandidates(r, n) ==
    {k \in (r.commit_index + 1)..Len(r.log) : CommitTest(r, Nodes \ {n}, total_nodes, k)}

UpdateCommit(r, n) ==
    IF CommitCandidates(r, n) = {} THEN r
    ELSE [r EXCEPT !.commit_index = Max(CommitCandidates(r, n))]

\* The loop of _send_append_entries from peer number idx on.  Reading
\* log[p_idx-1] beyond the log raises outside the try block and ends the
\* heartbeat task.
HeartbeatNext(r, n, idx) ==
    IF idx <= Len(Peers(n))
    THEN LET p == Peers(n)[idx]
             p_idx == r.next_index[p] - 1
         IN IF p_idx > Len(r.log)
            THEN [r EXCEPT !.heartbeat = NoHeartbeat]
            ELSE [r EXCEPT !.heartbeat =
                     [pc |-> "rpc", idx |-> idx, cancel |-> FALSE, stage |-> "req",
                      req |-> [term |-> r.current_term, leader_id |-> n,
                               entries |-> SubSeq(r.log, p_idx + 1, Len(r.log)),
                               prev_log_index |-> p_idx,
                               prev_log_term |-> IF p_idx > 0 THEN r.log[p_idx].term ELSE 0,
                               leader_commit |-> r.commit_index],
                      resp |-> NoAppendResp]]
    ELSE [UpdateCommit(r, n) EXCEPT !.heartbeat = [NoHeartbeat EXCEPT !.pc = "sleep"]]

\* --------------------------------------------------- lock state machine
NoLock == [present |-> FALSE, type |-> "none", owners |-> <<>>, waiters |-> <<>>]
NoEdges == [present |-> FALSE, edges |-> <<>>]
LockInit == [lock_table |-> [l \in LockNames |-> NoLock],
             wait_for_graph |-> [u \in Nodes |-> NoEdges]]

InSeq(x, s) == \E i \in 1..Len(s) : s[i] = x
\* list.remove(x): the first occurrence goes
RemoveFirst(s, x) ==
    LET i == CHOOSE j \in 1..Len(s) : s[j] = x /\ \A k \in 1..(j - 1) : s[k] # x
    IN SubSeq(s, 1, i - 1) \o SubSeq(s, i + 1, Len(s))

Command(type, lock_name, lock_type, requester) ==
    [type |-> type, lock_name |-> lock_name, lock_type |-> lock_type, requester |-> requester]

\* ApplyAcquire without the membership test of line 41.
ApplyAcquire_appending(st, lock_name, l_type, requester) ==
    LET e0 == st.lock_table[lock_name]
        e1 == IF ~e0.present
              THEN [present |-> TRUE, type |-> l_type, owners |-> <<>>, waiters |-> <<>>]
              ELSE e0
    IN [st EXCEPT !.lock_table[lock_name] =
                      [e1 EXCEPT !.owners = Append(e1.owners, requester), !.type = l_type]]

\* apply_lock_command, branch cmd_type == "acquire_lock" (lines 36-51);
\* st holds the process's lock_table and wait_for_graph.
ApplyAcquire(st, lock_name, l_type, requester) ==
    LET e0 == st.lock_table[lock_name]
        e1 == IF ~e0.present
              THEN [present |-> TRUE, type |-> l_type, owners |-> <<>>, waiters |-> <<>>]
              ELSE e0
        e2 == IF ~InSeq(requester, e1.owners)
              THEN [e1 EXCEPT !.owners = Append(e1.owners, requester), !.type = l_type]
              ELSE e1
        g0 == st.wait_for_graph[requester]
        kept == SelectSeq(g0.edges, LAMBDA v : ~InSeq(v, e2.owners))
        g1 == IF g0.present
              THEN (IF kept = <<>> THEN NoEdges ELSE [present |-> TRUE, edges |-> kept])
              ELSE g0
    IN [lock_table |-> [st.lock_table EXCEPT ![lock_name] = e2],
        wait_for_graph |-> [st.wait_for_graph EXCEPT ![requester] = g1]]

\* ApplyRelease with waiters.pop() for the waiters.pop(0) of line 60.
ApplyRelease_lifo(st, lock_name, requester) ==
    LET e0 == st.lock_table[lock_name]
    IN IF e0.present /\ InSeq(requester, e0.owners)
       THEN LET e1 == [e0 EXCEPT !.owners = RemoveFirst(e0.owners, requester)]
                st1 == [st EXCEPT !.lock_table[lock_name] = e1]
            IN IF e1.owners = <<>> /\ e1.waiters # <<>>
               THEN LET next == e1.waiters[Len(e1.waiters)]
                        st2 == [st1 EXCEPT !.lock_table[lock_name].waiters =
                                               SubSeq(e1.waiters, 1, Len(e1.waiters) - 1)]
                    IN ApplyAcquire(st2, lock_name, next[2], next[1])
               ELSE st1
       ELSE st

\* apply_lock_command, branch cmd_type == "release_lock" (lines 53-68)
ApplyRelease(st, lock_name, requester) ==
    LET e0 == st.lock_table[lock_name]
    IN IF e0.present /\ InSeq(requester, e0.owners)
       THEN LET e1 == [e0 EXCEPT !.owners = RemoveFirst(e0.owners, requester)]
                st1 == [st EXCEPT !.lock_table[lock_name] = e1]
            IN IF e1.owners = <<>> /\ e1.waiters # <<>>
               THEN LET next == Head(e1.waiters)
                        st2 == [st1 EXCEPT !.lock_table[lock_name].waiters = Tail(e1.waiters)]
                    IN ApplyAcquire(st2, lock_name, next[2], next[1])
               ELSE st1
       ELSE st

apply_lock_command(st, command) ==
    IF command.type = "acquire_lock"
    THEN ApplyAcquire(st, command.lock_name, command.lock_type, command.requester)
    ELSE IF command.type = "release_lock"
    THEN ApplyRelease(st, command.lock_name, command.requester)
    ELSE st

\* detect_deadlock: temp_graph is the wait-for graph plus the edges
\* requesting_node -> owner; has_cycle is the DFS with a recursion stack.
TempGraph(g, requesting_node, current_owners) ==
    [u \in Nodes |->
        IF u = requesting_node
        THEN [present |-> TRUE,
              edges |-> g[u].edges \o SelectSeq(current_owners, LAMBDA o : o # requesting_node)]
        ELSE g[u]]

RECURSIVE has_cycle(_, _, _, _), VisitNeighbors(_, _, _, _, _)
has_cycle(tg, node, visited, rec_stack) ==
    LET r == VisitNeighbors(tg, node, 1, visited \cup {node}, rec_stack \cup {node})
    IN IF r.found THEN r
       ELSE [found |-> FALSE, visited |-> r.visited, rec_stack |-> r.rec_stack \ {node}]

VisitNeighbors(tg, node, i, visited, rec_stack) ==
    IF i > Len(tg[node].edges)
    THEN [found |-> FALSE, visited |-> visited, rec_stack |-> rec_stack]
    ELSE LET neighbor == tg[node].edges[i]
         IN IF neighbor \notin visited
            THEN LET r == has_cycle(tg, neighbor, visited, rec_stack)
                 IN IF r.found THEN r
                    ELSE VisitNeighbors(tg, node, i + 1, r.visited, r.rec_stack)
            ELSE IF neighbor \in rec_stack
            THEN [found |-> TRUE, visited |-> visited, rec_stack |-> rec_stack]
            ELSE VisitNeighbors(tg, node, i + 1, visited, rec_stack)

RECURSIVE CycleFromKeys(_, _, _, _)
CycleFromKeys(tg, i, visited, rec_stack) ==
    IF i > Len(all_nodes) THEN FALSE
    ELSE LET node == all_nodes[i]
         IN IF tg[node].present /\ node \notin visited
            THEN LET r == has_cycle(tg, node, visited, rec_stack)
                 IN r.found \/ CycleFromKeys(tg, i + 1, r.visited, r.rec_stack)
            ELSE CycleFromKeys(tg, i + 1, visited, rec_stack)

detect_deadlock(g, requesting_node, current_owners) ==
    CycleFromKeys(TempGraph(g, requesting_node, current_owners), 1, {}, {})

can_grant_lock(lt, lock_name, lock_type, requester) ==
    IF ~lt[lock_name].present \/ lt[lock_name].owners = <<>> THEN TRUE
    ELSE IF InSeq(requester, lt[lock_name].owners) THEN TRUE
    ELSE IF lock_type = "shared" /\ lt[lock_name].type = "shared" THEN TRUE
    ELSE FALSE

\* ------------------------------------------------------ PBFT: replica
\* The PBFT cluster: n = 4 replicas, so f = 1 and quorum_size = 3.
pbft_all_nodes == <<1, 2, 3, 4>>
PbftNodes == {pbft_all_nodes[i] : i \in 1..Len(pbft_all_nodes)}
PbftPeers(n) == PbftNodes \ {n}
Sequences == 1..MaxSequence
\* __init__, "Calculate fault tolerance", for all_nodes of n entries.
fault_tolerance(n) ==
    LET max_faulty == (n - 1) \div 3
    IN [f |-> max_faulty, quorum_size |-> 2 * max_faulty + 1]

f == fault_tolerance(Len(pbft_all_nodes)).f
quorum_size == fault_tolerance(Len(pbft_all_nodes)).quorum_size
byzantine_threshold == 3

\* hashlib.sha256(s.encode()).hexdigest(), taken as injective: the text
\* hashed, wrapped.
sha256(s) == "sha256(" \o s \o ")"

\* compute_digest: sha256 of the canonical JSON text of the request.
compute_digest(request) == sha256(request)

\* sign_message: sha256 of the f-string
\* "{msg_type}:{view}:{sequence}:{digest}:{node_id}", no key.
sign_message(m) ==
    sha256(m.msg_type \o ":" \o ToString(m.view) \o ":" \o ToString(m.sequence)
           \o ":" \o m.digest \o ":" \o ToString(m.node_id))

verify_signature(m) == m.signature = sign_message(m)

NoMessage == [msg_type |-> "none", view |-> 0, sequence |-> 0, digest |-> "",
              node_id |-> None, request |-> "none", signature |-> ""]

PBFTMessage(msg_type, view, sequence, digest, node_id, request) ==
    LET m == [msg_type |-> msg_type, view |-> view, sequence |-> sequence, digest |-> digest,
              node_id |-> node_id, request |-> request, signature |-> ""]
    IN [m EXCEPT !.signature = sign_message(m)]

\* __init__; tasks holds the calls suspended in broadcast_message.
PbftInit ==
    [view |-> 0, sequence |-> 0,
     primary_id |-> pbft_all_nodes[(0 % Len(pbft_all_nodes)) + 1],
     pre_prepare_log |-> [s \in Sequences |-> NoMessage],
     prepare_log |-> [s \in Sequences |-> <<>>],
     commit_log |-> [s \in Sequences |-> <<>>],
     executed |-> {}, last_executed |-> 0,
     suspicious_nodes |-> [m \in PbftNodes |-> 0],
     tasks |-> {}]

is_primary(p, n) == n = p.primary_id

detect_byzantine_behavior(p, node_id) ==
    IF node_id \in PbftNodes THEN [p EXCEPT !.suspicious_nodes[node_id] = @ + 1] ELSE p

\* is_byzantine with > for the >= of line 153.
is_byzantine_above(p, node_id) ==
    node_id \in PbftNodes /\ p.suspicious_nodes[node_id] > byzantine_threshold

is_byzantine(p, node_id) ==
    node_id \in PbftNodes /\ p.suspicious_nodes[node_id] >= byzantine_threshold

\* A handler's effect: the replica, the messages it broadcasts.
Effect(p, out) == [node |-> p, out |-> out]

\* broadcast_message: one RPC to every peer.
broadcast_message(n, m) == {[to |-> q, msg |-> m] : q \in PbftPeers(n)}

execute_request(p, sequence) ==
    IF sequence \in p.executed THEN p
    ELSE IF p.pre_prepare_log[sequence].msg_type = "none" THEN p
    ELSE [p EXCEPT !.executed = @ \cup {sequence},
                   !.last_executed = Max2(p.last_executed, sequence)]

check_commit_quorum(p, sequence) ==
    IF sequence \in p.executed THEN p
    ELSE IF Len(p.commit_log[sequence]) >= quorum_size THEN execute_request(p, sequence)
    ELSE p

\* check_prepare_quorum up to its broadcast; check_commit_quorum follows
\* when the broadcast returns.
check_prepare_quorum(p, n, sequence) ==
    IF Len(p.prepare_log[sequence]) >= quorum_size
    THEN LET commit == PBFTMessage("commit", p.view, sequence,
                                   p.pre_prepare_log[sequence].digest, n, "none")
         IN Effect([p EXCEPT !.commit_log[sequence] = Append(@, commit),
                             !.tasks = @ \cup {[call |-> "check_commit_quorum",
                                                sequence |-> sequence, msg |-> NoMessage]}],
                   broadcast_message(n, commit))
    ELSE Effect(p, {})

\* handle_pre_prepare up to its broadcast; check_prepare_quorum follows.
handle_pre_prepare(p, n, message) ==
    IF message.node_id # p.primary_id THEN Effect(detect_byzantine_behavior(p, message.node_id), {})
    ELSE IF ~verify_signature(message)
    THEN Effect(detect_byzantine_behavior(p, message.node_id), {})
    ELSE IF /\ p.pre_prepare_log[message.sequence].msg_type # "none"
            /\ p.pre_prepare_log[message.sequence].digest # message.digest
    THEN Effect(detect_byzantine_behavior(p, message.node_id), {})
    ELSE LET prepare == PBFTMessage("prepare", p.view, message.sequence, message.digest, n, "none")
         IN Effect([p EXCEPT !.pre_prepare_log[message.sequence] = message,
                             !.prepare_log[message.sequence] = Append(@, prepare),
                             !.tasks = @ \cup {[call |-> "check_prepare_quorum",
                                                sequence |-> message.sequence,
                                                msg |-> NoMessage]}],
                   broadcast_message(n, prepare))

handle_prepare(p, n, message) ==
    IF ~verify_signature(message)
    THEN Effect(detect_byzantine_behavior(p, message.node_id), {})
    ELSE IF is_byzantine(p, message.node_id) THEN Effect(p, {})
    ELSE IF \/ message.sequence \notin Sequences
            \/ p.pre_prepare_log[message.sequence].msg_type = "none"
    THEN Effect(p, {})
    ELSE IF message.digest # p.pre_prepare_log[message.sequence].digest
    THEN Effect(detect_byzantine_behavior(p, message.node_id), {})
    ELSE IF \E i \in 1..Len(p.prepare_log[message.sequence]) :
                p.prepare_log[message.sequence][i].node_id = message.node_id
    THEN Effect(p, {})
    ELSE check_prepare_quorum([p EXCEPT !.prepare_log[message.sequence] = Append(@, message)],
                              n, message.sequence)

handle_commit(p, n, message) ==
    IF ~verify_signature(message)
    THEN Effect(detect_byzantine_behavior(p, message.node_id), {})
    ELSE IF is_byzantine(p, message.node_id) THEN Effect(p, {})
    ELSE IF \E i \in 1..Len(p.commit_log[message.sequence]) :
                p.commit_log[message.sequence][i].node_id = message.node_id
    THEN Effect(p, {})
    ELSE Effect(check_commit_quorum([p EXCEPT !.commit_log[message.sequence] = Append(@, message)],
                                    message.sequence), {})

\* start_consensus up to its broadcast; handle_pre_prepare on the own
\* message follows.
start_consensus(p, n, request) ==
    LET pre_prepare == PBFTMessage("pre-prepare", p.view, p.sequence + 1,
                                   compute_digest(request), n, request)
    IN Effect([p EXCEPT !.sequence = @ + 1,
                        !.pre_prepare_log[p.sequence + 1] = pre_prepare,
                        !.tasks = @ \cup {[call |-> "handle_pre_prepare",
                                           sequence |-> p.sequence + 1, msg |-> pre_prepare]}],
              broadcast_message(n, pre_prepare))

\* pbft_protocol_message: dispatch on msg_type.
pbft_protocol_message(p, n, message) ==
    IF message.msg_type = "pre-prepare" THEN handle_pre_prepare(p, n, message)
    ELSE IF message.msg_type = "prepare" THEN handle_prepare(p, n, message)
    ELSE IF message.msg_type = "commit" THEN handle_commit(p, n, message)
    ELSE Effect(p, {})

\* The rest of a call once its broadcast has returned.
Resume(p, n, task) ==
    LET q == [p EXCEPT !.tasks = @ \ {task}]
    IN IF task.call = "handle_pre_prepare" THEN handle_pre_prepare(q, n, task.msg)
       ELSE IF task.call = "check_prepare_quorum" THEN check_prepare_quorum(q, n, task.sequence)
       ELSE Effect(check_commit_quorum(q, task.sequence), {})

\* ------------------------------------------------------------- Init
\* The answer of a lock endpoint of node: its status code (0: the request
\* was handed to forward_to), whether the handler appended to the Raft log,
\* and whether, when the request came in, an owner of the lock waited for
\* the requester.
\* No acquire handler of the node has appended a command yet.
NoPoll == [status |-> "none", lock_name |-> "none", lock_type |-> "none", index |-> 0,
           left |-> 0]

NoHttp == [node |-> None, op |-> "none", code |-> 0, forward_to |-> None,
           owner_waits |-> FALSE, appended |-> FALSE]

Init ==
    /\ raft = [n \in Nodes |-> RaftInit]
    /\ lock_table = [n \in Nodes |-> LockInit.lock_table]
    /\ wait_for_graph = [n \in Nodes |-> LockInit.wait_for_graph]
    /\ applied = [n \in Nodes |-> <<>>]
    /\ committed = {}
    /\ http = NoHttp
    /\ env = [timeouts |-> 0, errors |-> 0, forged |-> 0]
    /\ pbft = [n \in PbftNodes |-> PbftInit]
    /\ net = {}
    /\ polls = [n \in Nodes |-> NoPoll]

\* Entries over which a leader's commit_index advanced in a step.
LeaderCommits(old, new) ==
    IF new.state = "LEADER" /\ new.commit_index > old.commit_index
    THEN {[index |-> k, entry |-> new.log[k], term |-> new.current_term] :
             k \in (old.commit_index + 1)..new.commit_index}
    ELSE {}

\* ------------------------------------------- Raft: steps of the tasks
\* The reply of a RequestVote is consumed (lines 105-109), the loop goes on.
VoteReply(r, n) ==
    LET v == r.vote_round
    IN IF v.resp.vote_granted THEN VoteRoundNext(r, n, v.idx + 1, v.votes + 1)
       ELSE IF v.resp.term > r.current_term
       THEN [_transition_to_follower(r, v.resp.term) EXCEPT !.vote_round = NoVoteRound]
       ELSE VoteRoundNext(r, n, v.idx + 1, v.votes)

\* The RPC yields no vote: CancelledError caught by the bare except, or the
\* transport's error marker (vote_granted False, no term).
VoteFails(r, n) == VoteRoundNext(r, n, r.vote_round.idx + 1, r.vote_round.votes)

\* The reply of an AppendEntries is consumed (lines 175-183).
AppendReply(r, n) ==
    LET h == r.heartbeat
        p == Peers(n)[h.idx]
        sent == h.req.prev_log_index + Len(h.req.entries)
    IN IF h.resp.term > r.current_term
       THEN [_transition_to_follower(r, h.resp.term) EXCEPT !.heartbeat = NoHeartbeat]
       ELSE IF h.resp.success
       THEN HeartbeatNext([r EXCEPT !.next_index[p] = sent + 1, !.match_index[p] = sent],
                          n, h.idx + 1)
       ELSE HeartbeatNext([r EXCEPT !.next_index[p] = Max2(1, r.next_index[p] - 1)],
                          n, h.idx + 1)

\* send_rpc_to_peer returns its error marker {success: False}: line 183 runs.
AppendTransportError(r, n) ==
    LET p == Peers(n)[r.heartbeat.idx]
    IN HeartbeatNext([r EXCEPT !.next_index[p] = Max2(1, r.next_index[p] - 1)],
                     n, r.heartbeat.idx + 1)

\* CancelledError raised in the RPC is caught at line 184: continue.
AppendCancelled(r, n) == HeartbeatNext(r, n, r.heartbeat.idx + 1)

\* leader_loop wakes up (or starts) and tests self.state.
leader_loop(r, n) ==
    IF r.state = "LEADER" THEN HeartbeatNext(r, n, 1) ELSE [r EXCEPT !.heartbeat = NoHeartbeat]

\* _election_timeout_handler after its sleep.
_election_timeout_handler(r, n) ==
    IF r.state # "LEADER" THEN _transition_to_candidate(r, n)
    ELSE [r EXCEPT !.election_timer = FALSE]

\* The peer's handler runs on the request in flight; the reply is in flight.
DeliverVote(R, n) ==
    LET v == R[n].vote_round
        p == Peers(n)[v.idx]
        h == handle_request_vote(R[p], v.req)
    IN [R EXCEPT ![p] = h.node, ![n].vote_round.stage = "resp", ![n].vote_round.resp = h.resp]

DeliverAppend(R, n) ==
    LET h == R[n].heartbeat
        p == Peers(n)[h.idx]
        a == handle_append_entries(R[p], h.req)
    IN [R EXCEPT ![p] = a.node, ![n].heartbeat.stage = "resp", ![n].heartbeat.resp = a.resp]

\* A vote round, resp. a heartbeat round, run to its end with no other step
\* in between.  Every RPC is answered, except a cancelled one and, in a
\* heartbeat round, those to the peers in down, which end in a transport
\* error.
RECURSIVE RunVoteRound(_, _), RunHeartbeat(_, _, _)
RunVoteRound(R, n) ==
    LET v == R[n].vote_round
    IN IF v.pc # "rpc" THEN R
       ELSE IF v.cancel THEN RunVoteRound([R EXCEPT ![n] = VoteFails(R[n], n)], n)
       ELSE IF v.stage = "req" THEN RunVoteRound(DeliverVote(R, n), n)
       ELSE RunVoteRound([R EXCEPT ![n] = VoteReply(R[n], n)], n)

RunHeartbeat(R, n, down) ==
    LET h == R[n].heartbeat
    IN IF h.pc # "rpc" THEN R
       ELSE IF h.cancel
       THEN RunHeartbeat([R EXCEPT ![n] = AppendCancelled(R[n], n)], n, down)
       ELSE IF Peers(n)[h.idx] \in down
       THEN RunHeartbeat([R EXCEPT ![n] = AppendTransportError(R[n], n)], n, down)
       ELSE IF h.stage = "req" THEN RunHeartbeat(DeliverAppend(R, n), n, down)
       ELSE RunHeartbeat([R EXCEPT ![n] = AppendReply(R[n], n)], n, down)

\* ------------------------------------------------------- Raft: actions
LockSame == UNCHANGED <<lock_table, wait_for_graph, pbft, net, polls>> /\ http' = NoHttp

\* startup_raft: the election timer is armed once after start-up.
Startup(n) ==
    /\ ~raft[n].started
    /\ raft' = [raft EXCEPT ![n] = [reset_election_timer(raft[n]) EXCEPT !.started = TRUE]]
    /\ UNCHANGED <<applied, committed, env>> /\ LockSame

\* activate: the commit monitor task is created once.
activate(n, maxActive) ==
    /\ ~raft[n].commit_monitor
    /\ Cardinality({m \in Nodes : raft[m].commit_monitor}) < maxActive
    /\ raft' = [raft EXCEPT ![n].commit_monitor = TRUE]
    /\ UNCHANGED <<applied, committed, env>> /\ LockSame

TimerGuard(n, maxTimeouts) ==
    /\ raft[n].election_timer
    /\ raft[n].vote_round.pc = "none"
    /\ env.timeouts < maxTimeouts
    /\ env' = [env EXCEPT !.timeouts = @ + 1]

ElectionTimeout(n, maxTimeouts) ==
    /\ TimerGuard(n, maxTimeouts)
    /\ raft' = [raft EXCEPT ![n] = _election_timeout_handler(raft[n], n)]
    /\ UNCHANGED <<applied, committed>> /\ LockSame

VoteDeliver(n) ==
    /\ raft[n].vote_round.pc = "rpc" /\ raft[n].vote_round.stage = "req"
    /\ ~raft[n].vote_round.cancel
    /\ raft' = DeliverVote(raft, n)
    /\ UNCHANGED <<applied, committed, env>> /\ LockSame

VoteReplyArrives(n) ==
    /\ raft[n].vote_round.pc = "rpc" /\ raft[n].vote_round.stage = "resp"
    /\ ~raft[n].vote_round.cancel
    /\ raft' = [raft EXCEPT ![n] = VoteReply(raft[n], n)]
    /\ UNCHANGED <<applied, committed, env>> /\ LockSame

VoteRpcCancelled(n) ==
    /\ raft[n].vote_round.pc = "rpc" /\ raft[n].vote_round.cancel
    /\ raft' = [raft EXCEPT ![n] = VoteFails(raft[n], n)]
    /\ UNCHANGED <<applied, committed, env>> /\ LockSame

VoteRpcFails(n) ==
    /\ raft[n].vote_round.pc = "rpc" /\ ~raft[n].vote_round.cancel
    /\ env.errors < MaxErrors
    /\ env' = [env EXCEPT !.errors = @ + 1]
    /\ raft' = [raft EXCEPT ![n] = VoteFails(raft[n], n)]
    /\ UNCHANGED <<applied, committed>> /\ LockSame

HeartbeatTick(n) ==
    /\ raft[n].heartbeat.pc \in {"start", "sleep"}
    /\ raft' = [raft EXCEPT ![n] = leader_loop(raft[n], n)]
    /\ committed' = committed \cup LeaderCommits(raft[n], raft'[n])
    /\ UNCHANGED <<applied, env>> /\ LockSame

AppendDeliver(n) ==
    /\ raft[n].heartbeat.pc = "rpc" /\ raft[n].heartbeat.stage = "req"
    /\ ~raft[n].heartbeat.cancel
    /\ raft' = DeliverAppend(raft, n)
    /\ UNCHANGED <<applied, committed, env>> /\ LockSame

AppendReplyArrives(n) ==
    /\ raft[n].heartbeat.pc = "rpc" /\ raft[n].heartbeat.stage = "resp"
    /\ ~raft[n].heartbeat.cancel
    /\ raft' = [raft EXCEPT ![n] = AppendReply(raft[n], n)]
    /\ committed' = committed \cup LeaderCommits(raft[n], raft'[n])
    /\ UNCHANGED <<applied, env>> /\ LockSame

AppendRpcFails(n) ==
    /\ raft[n].heartbeat.pc = "rpc" /\ ~raft[n].heartbeat.cancel
    /\ env.errors < MaxErrors
    /\ env' = [env EXCEPT !.errors = @ + 1]
    /\ raft' = [raft EXCEPT ![n] = AppendTransportError(raft[n], n)]
    /\ committed' = committed \cup LeaderCommits(raft[n], raft'[n])
    /\ UNCHANGED applied /\ LockSame

AppendRpcCancelled(n) ==
    /\ raft[n].heartbeat.pc = "rpc" /\ raft[n].heartbeat.cancel
    /\ raft' = [raft EXCEPT ![n] = AppendCancelled(raft[n], n)]
    /\ committed' = committed \cup LeaderCommits(raft[n], raft'[n])
    /\ UNCHANGED <<applied, env>> /\ LockSame

\* A whole heartbeat round of leader_loop; the RPCs to the peers in down
\* end in a transport error.
HeartbeatRound(n, maxErrors) ==
    /\ raft[n].heartbeat.pc \in {"start", "sleep"}
    /\ \E down \in SUBSET {p \in Nodes : p # n} :
          /\ env.errors + Cardinality(down) <= maxErrors
          /\ env' = [env EXCEPT !.errors = @ + Cardinality(down)]
          /\ raft' = RunHeartbeat([raft EXCEPT ![n] = leader_loop(raft[n], n)], n, down)
    /\ committed' = committed \cup LeaderCommits(raft[n], raft'[n])
    /\ UNCHANGED applied /\ LockSame

\* A timer expiry and the whole vote round it starts, every peer answering.
Election(n, maxTerm) ==
    /\ raft[n].election_timer
    /\ raft[n].vote_round.pc = "none"
    /\ raft[n].current_term < maxTerm
    /\ raft' = RunVoteRound([raft EXCEPT ![n] = _election_timeout_handler(raft[n], n)], n)
    /\ UNCHANGED <<applied, committed, env>> /\ LockSame

\* _commit_monitor from one sleep to the next.  Reading an index beyond the
\* log raises IndexError after last_applied was incremented; the except
\* clause swallows it and the loop goes on without sleeping, so every index
\* up to commit_index counts as applied although the callback never ran.
_commit_monitor(n) ==
    LET r == raft[n]
        k == r.last_applied + 1
    IN /\ r.commit_monitor
       /\ r.commit_index > r.last_applied
       /\ raft' = [raft EXCEPT ![n].last_applied =
                       IF k <= Len(r.log) THEN k ELSE r.commit_index]
       /\ IF k <= Len(r.log)
          THEN LET st == apply_lock_command([lock_table |-> lock_table[n],
                                             wait_for_graph |-> wait_for_graph[n]],
                                            r.log[k].command)
               IN /\ lock_table' = [lock_table EXCEPT ![n] = st.lock_table]
                  /\ wait_for_graph' = [wait_for_graph EXCEPT ![n] = st.wait_for_graph]
                  /\ applied' = [applied EXCEPT ![n] =
                                    Append(@, [index |-> k, command |-> r.log[k].command])]
          ELSE UNCHANGED <<lock_table, wait_for_graph, applied>>
       /\ http' = NoHttp
       /\ UNCHANGED <<committed, env, pbft, net, polls>>

\* append_log_entry without the test of state at lines 222-223.
append_log_entry_any_role(r, command) ==
    [node |-> [r EXCEPT !.log = Append(r.log, [term |-> r.current_term, command |-> command])],
     ok |-> TRUE]

\* append_log_entry: a Leader appends, any other node refuses.
append_log_entry(r, command) ==
    IF r.state # "LEADER" THEN [node |-> r, ok |-> FALSE]
    ELSE [node |-> [r EXCEPT !.log = Append(r.log, [term |-> r.current_term, command |-> command])],
          ok |-> TRUE]

\* The lock manager of node n submits a command (its requester is n).
Submit(n, command, maxLog) ==
    /\ Len(raft[n].log) < maxLog
    /\ raft' = [raft EXCEPT ![n] = append_log_entry(raft[n], command).node]
    /\ UNCHANGED <<applied, committed, env>> /\ LockSame

\* ------------------------------------------------ lock manager: routes
\* The wait-for edges recorded anywhere in the cluster.
ClusterEdges ==
    {e \in Nodes \X Nodes :
        \E n \in Nodes : /\ wait_for_graph[n][e[1]].present
                         /\ InSeq(e[2], wait_for_graph[n][e[1]].edges)}

RECURSIVE ReachableFrom(_, _)
ReachableFrom(S, E) ==
    LET T == S \cup {e[2] : e \in {d \in E : d[1] \in S}}
    IN IF T = S THEN S ELSE ReachableFrom(T, E)

\* u waits for v, directly or transitively.
WaitsFor(u, v) == v \in ReachableFrom({e[2] : e \in {d \in ClusterEdges : d[1] = u}}, ClusterEdges)

\* forward_to_leader without the test of line 131.
forward_to_leader_unchecked(n, op) ==
    [NoHttp EXCEPT !.node = n, !.op = op, !.code = 0, !.forward_to = raft[n].leader_id]

\* forward_to_leader: 503 without a known leader, else the request goes on
\* to leader_id.
forward_to_leader(n, op) ==
    [NoHttp EXCEPT !.node = n, !.op = op,
                   !.code = IF raft[n].leader_id = None THEN 503 ELSE 0,
                   !.forward_to = raft[n].leader_id]

\* POST /lock/{lock_name} handled by node n; the requester is n itself.
acquire_lock(n, lock_name, lock_type, maxLog) ==
    LET requester == n
        lt == lock_table[n]
        owners == lt[lock_name].owners
        waits == \E o \in Nodes : InSeq(o, owners) /\ o # requester /\ WaitsFor(o, requester)
        answer == [NoHttp EXCEPT !.node = n, !.op = "acquire", !.owner_waits = waits]
    IN IF raft[n].state # "LEADER"
       THEN /\ http' = forward_to_leader(n, "acquire")
            /\ UNCHANGED <<raft, lock_table, wait_for_graph>>
       ELSE IF can_grant_lock(lt, lock_name, lock_type, requester)
       THEN IF detect_deadlock(wait_for_graph[n], requester, owners)
            THEN /\ http' = [answer EXCEPT !.code = 409]
                 /\ UNCHANGED <<raft, lock_table, wait_for_graph>>
            ELSE /\ Len(raft[n].log) < maxLog
                 /\ raft' = [raft EXCEPT ![n] =
                       append_log_entry(raft[n],
                           Command("acquire_lock", lock_name, lock_type, requester)).node]
                 /\ http' = [answer EXCEPT !.code = 200, !.appended = TRUE]
                 /\ UNCHANGED <<lock_table, wait_for_graph>>
       ELSE /\ Len(lt[lock_name].waiters) < MaxWaiters
            /\ lock_table' = [lock_table EXCEPT ![n][lock_name].waiters =
                                 Append(@, <<requester, lock_type>>)]
            /\ wait_for_graph' = [wait_for_graph EXCEPT ![n][requester] =
                                     [present |-> TRUE, edges |-> @.edges \o owners]]
            /\ http' = [answer EXCEPT !.code = 423]
            /\ UNCHANGED raft

\* DELETE /lock/{lock_name} handled by node n.
release_lock(n, lock_name, maxLog) ==
    LET requester == n
        answer == [NoHttp EXCEPT !.node = n, !.op = "release"]
    IN IF raft[n].state # "LEADER"
       THEN /\ http' = forward_to_leader(n, "release")
            /\ UNCHANGED <<raft, lock_table, wait_for_graph>>
       ELSE IF ~lock_table[n][lock_name].present
               \/ ~InSeq(requester, lock_table[n][lock_name].owners)
       THEN /\ http' = [answer EXCEPT !.code = 404]
            /\ UNCHANGED <<raft, lock_table, wait_for_graph>>
       ELSE /\ Len(raft[n].log) < maxLog
            /\ raft' = [raft EXCEPT ![n] =
                  append_log_entry(raft[n], Command("release_lock", lock_name, "none", requester)).node]
            /\ http' = [answer EXCEPT !.code = 200, !.appended = TRUE]
            /\ UNCHANGED <<lock_table, wait_for_graph>>

AcquireLock(n, types, maxLog) ==
    /\ \E lock_name \in LockNames, lock_type \in types :
          acquire_lock(n, lock_name, lock_type, maxLog)
    /\ UNCHANGED <<applied, committed, env, pbft, net, polls>>

ReleaseLock(n, maxLog) ==
    /\ \E lock_name \in LockNames : release_lock(n, lock_name, maxLog)
    /\ UNCHANGED <<applied, committed, env, pbft, net, polls>>

\* The cluster as main.py deploys it: activate is never called, so no
\* commit monitor runs.
Next ==
    \E n \in Nodes :
        \/ Startup(n)
        \/ ElectionTimeout(n, MaxTimeouts)
        \/ VoteDeliver(n)
        \/ VoteReplyArrives(n)
        \/ VoteRpcCancelled(n)
        \/ VoteRpcFails(n)
        \/ HeartbeatTick(n)
        \/ AppendDeliver(n)
        \/ AppendReplyArrives(n)
        \/ AppendRpcFails(n)
        \/ AppendRpcCancelled(n)
        \/ Submit(n, Command("acquire_lock", "A", "exclusive", n), MaxLog)

Spec == Init /\ [][Next]_vars

\* The engine with its commit monitor activated.
NextApply ==
    \E n \in Nodes :
        \/ Startup(n)
        \/ activate(n, total_nodes)
        \/ ElectionTimeout(n, ApplyMaxTimeouts)
        \/ VoteDeliver(n)
        \/ VoteReplyArrives(n)
        \/ VoteRpcCancelled(n)
        \/ HeartbeatRound(n, ApplyMaxErrors)
        \/ _commit_monitor(n)
        \/ Submit(n, Command("acquire_lock", "A", "exclusive", n), ApplyMaxLog)

SpecApply == Init /\ [][NextApply]_vars

\* The same engine with longer logs and fewer commit monitors.
NextSkip ==
    \E n \in Nodes :
        \/ Startup(n)
        \/ activate(n, SkipMaxActive)
        \/ ElectionTimeout(n, SkipMaxTimeouts)
        \/ VoteDeliver(n)
        \/ VoteReplyArrives(n)
        \/ VoteRpcCancelled(n)
        \/ HeartbeatRound(n, SkipMaxErrors)
        \/ _commit_monitor(n)
        \/ Submit(n, Command("acquire_lock", "A", "exclusive", n), SkipMaxLog)

SpecSkip == Init /\ [][NextSkip]_vars

\* The deployed engine over more terms.
NextTerms ==
    \E n \in Nodes :
        \/ Startup(n)
        \/ ElectionTimeout(n, TermsMaxTimeouts)
        \/ VoteDeliver(n)
        \/ VoteReplyArrives(n)
        \/ VoteRpcCancelled(n)
        \/ HeartbeatRound(n, TermsMaxErrors)
        \/ Submit(n, Command("acquire_lock", "A", "exclusive", n), TermsMaxLog)

SpecTerms == Init /\ [][NextTerms]_vars

\* Every process starts: startup_raft arms the timer and, as the comment in
\* main.py intends, activate starts the commit monitor.
StartCluster ==
    /\ \A n \in Nodes : ~raft[n].started
    /\ raft' = [n \in Nodes |->
                   [reset_election_timer(raft[n]) EXCEPT !.started = TRUE,
                                                         !.commit_monitor = TRUE]]
    /\ UNCHANGED <<applied, committed, env>> /\ LockSame

\* No activated commit monitor has a committed entry left to apply.
MonitorsIdle ==
    \A m \in Nodes : raft[m].commit_monitor => raft[m].commit_index <= raft[m].last_applied

\* The lock manager on a cluster started as a whole, whose vote and
\* heartbeat rounds run to completion without transport errors and whose
\* commit monitors (polling every 0.1 s) run before the next heartbeat,
\* timer expiry or request.
NextLock ==
    \/ StartCluster
    \/ \E n \in Nodes :
        \/ _commit_monitor(n)
        \/ MonitorsIdle /\ Election(n, LockMaxTerm)
        \/ MonitorsIdle /\ HeartbeatRound(n, 0)
        \/ MonitorsIdle /\ AcquireLock(n, LockTypes, LockMaxLog)
        \/ MonitorsIdle /\ ReleaseLock(n, LockMaxLog)

SpecLock == Init /\ [][NextLock]_vars

\* The same cluster over more terms, asked for exclusive locks only.
NextDeadlock ==
    \/ StartCluster
    \/ \E n \in Nodes :
        \/ _commit_monitor(n)
        \/ MonitorsIdle /\ Election(n, DeadlockMaxTerm)
        \/ MonitorsIdle /\ HeartbeatRound(n, 0)
        \/ MonitorsIdle /\ AcquireLock(n, {"exclusive"}, DeadlockMaxLog)

SpecDeadlock == Init /\ [][NextDeadlock]_vars

\* POST /lock/{lock_name} at node n up to the first look at the lock table:
\* a handler that appended its command goes on to wait for the grant; http
\* holds the answer of a handler that did not append.
AcquirePolling(n, types, maxLog) ==
    /\ polls[n].status # "polling"
    /\ \E lock_name \in LockNames, lock_type \in types :
          /\ acquire_lock(n, lock_name, lock_type, maxLog)
          /\ polls' = IF http'.appended
                      THEN [polls EXCEPT ![n] =
                               [status |-> "polling", lock_name |-> lock_name,
                                lock_type |-> lock_type, index |-> Len(raft'[n].log),
                                left |-> PollAttempts]]
                      ELSE polls
    /\ UNCHANGED <<applied, committed, env, pbft, net>>

\* One iteration of the polling loop of acquire_lock (lines 209-217): the
\* requester is among the owners and the handler answers success, or the
\* handler sleeps, or it has looked for the last time and answers pending.
PollLock(n) ==
    /\ polls[n].status = "polling"
    /\ LET q == polls[n]
           requester == n
           e == lock_table[n][q.lock_name]
       IN polls' = [polls EXCEPT ![n] =
                       IF e.present /\ InSeq(requester, e.owners)
                       THEN [q EXCEPT !.status = "success"]
                       ELSE IF q.left > 1 THEN [q EXCEPT !.left = @ - 1]
                       ELSE [q EXCEPT !.status = "pending", !.left = 0]]
    /\ http' = NoHttp
    /\ UNCHANGED <<raft, lock_table, wait_for_graph, applied, committed, env, pbft, net>>

\* The cluster of SpecLock with the acquire handlers waiting for their
\* grant while the heartbeats, the commit monitors and the timers run.
NextPoll ==
    \/ StartCluster
    \/ \E n \in Nodes :
        \/ _commit_monitor(n)
        \/ PollLock(n)
        \/ MonitorsIdle /\ Election(n, PollMaxTerm)
        \/ MonitorsIdle /\ HeartbeatRound(n, 0)
        \/ MonitorsIdle /\ AcquirePolling(n, LockTypes, PollMaxLog)
        \/ MonitorsIdle /\ ReleaseLock(n, PollMaxLog)

SpecPoll == Init /\ [][NextPoll]_vars

\* ------------------------------------- the lock state machine alone
\* apply_lock_command called at process n with any acquire or release
\* command, as _commit_monitor calls it for a committed entry.
ApplyCallback(n, command) ==
    /\ Len(applied[n]) < TableMaxApplied
    /\ LET st == apply_lock_command([lock_table |-> lock_table[n],
                                     wait_for_graph |-> wait_for_graph[n]], command)
       IN /\ lock_table' = [lock_table EXCEPT ![n] = st.lock_table]
          /\ wait_for_graph' = [wait_for_graph EXCEPT ![n] = st.wait_for_graph]
    /\ applied' = [applied EXCEPT ![n] =
                      Append(@, [index |-> Len(@) + 1, command |-> command])]
    /\ http' = NoHttp
    /\ UNCHANGED <<raft, committed, env, pbft, net, polls>>

NextTable ==
    \E n \in TableNodes : \E type \in {"acquire_lock", "release_lock"} :
        \E lock_name \in LockNames : \E lock_type \in LockTypes : \E requester \in Nodes :
            ApplyCallback(n, Command(type, lock_name, lock_type, requester))

SpecTable == Init /\ [][NextTable]_vars

\* The process of a node that is Leader of term 1.
InitQueue ==
    /\ raft = [n \in Nodes |->
                 IF n \in TableNodes
                 THEN [RaftInit EXCEPT !.state = "LEADER", !.current_term = 1, !.voted_for = n,
                                       !.leader_id = n, !.started = TRUE]
                 ELSE RaftInit]
    /\ lock_table = [n \in Nodes |-> LockInit.lock_table]
    /\ wait_for_graph = [n \in Nodes |-> LockInit.wait_for_graph]
    /\ applied = [n \in Nodes |-> <<>>]
    /\ committed = {}
    /\ http = NoHttp
    /\ env = [timeouts |-> 0, errors |-> 0, forged |-> 0]
    /\ pbft = [n \in PbftNodes |-> PbftInit]
    /\ net = {}
    /\ polls = [n \in Nodes |-> NoPoll]

\* POST /lock/{lock_name} at the Leader n for a lock that cannot be
\* granted (lines 220-236): the request joins the waiters, the requester
\* gets an edge to every owner and the answer is 423.
JoinWaiters(n, lock_name, lock_type, maxWaiters) ==
    LET requester == n
        lt == lock_table[n]
        owners == lt[lock_name].owners
    IN /\ raft[n].state = "LEADER"
       /\ ~can_grant_lock(lt, lock_name, lock_type, requester)
       /\ Len(lt[lock_name].waiters) < maxWaiters
       /\ lock_table' = [lock_table EXCEPT ![n][lock_name].waiters =
                            Append(@, <<requester, lock_type>>)]
       /\ wait_for_graph' = [wait_for_graph EXCEPT ![n][requester] =
                                [present |-> TRUE, edges |-> @.edges \o owners]]
       /\ http' = [NoHttp EXCEPT !.node = n, !.op = "acquire", !.code = 423]
       /\ UNCHANGED <<raft, applied, committed, env, pbft, net, polls>>

\* apply_lock_command called at the Leader's process as in SpecTable, and
\* the Leader's own requests for locks that are held.
NextQueue ==
    \E n \in TableNodes : \E lock_name \in LockNames : \E lock_type \in LockTypes :
        \/ \E type \in {"acquire_lock", "release_lock"} : \E requester \in Nodes :
              ApplyCallback(n, Command(type, lock_name, lock_type, requester))
        \/ JoinWaiters(n, lock_name, lock_type, QueueMaxWaiters)

SpecQueue == InitQueue /\ [][NextQueue]_vars

\* ------------------------------------------------------- PBFT: actions
RaftSame == UNCHANGED <<raft, lock_table, wait_for_graph, applied, committed, http, env, polls>>

\* POST /pbft/request at replica n: the primary starts consensus, any other
\* replica answers "forwarded".
pbft_client_request(n, request) ==
    /\ pbft[n].sequence < MaxSequence
    /\ LET e == IF is_primary(pbft[n], n) THEN start_consensus(pbft[n], n, request)
                ELSE Effect(pbft[n], {})
       IN /\ pbft' = [pbft EXCEPT ![n] = e.node]
          /\ net' = net \cup e.out
    /\ RaftSame

\* POST /pbft/message: replica n serves the message d in flight.
PbftServe(n, d) ==
    /\ d \in net
    /\ d.to = n
    /\ LET e == pbft_protocol_message(pbft[n], n, d.msg)
       IN /\ pbft' = [pbft EXCEPT ![n] = e.node]
          /\ net' = (net \ {d}) \cup e.out
    /\ RaftSame

\* A message in flight reaches its replica.  The prepare and commit
\* messages to a replica outside responsive stay in flight.
PbftDeliver(n, responsive) ==
    \E d \in net :
        /\ n \in responsive \/ d.msg.msg_type = "pre-prepare"
        /\ PbftServe(n, d)

\* The broadcast of a suspended call returns and the call goes on.
PbftResume(n) ==
    /\ \E task \in pbft[n].tasks :
          LET e == Resume(pbft[n], n, task)
          IN /\ pbft' = [pbft EXCEPT ![n] = e.node]
             /\ net' = net \cup e.out
    /\ RaftSame

\* POST /pbft/simulate-byzantine at replica n: a prepare for the replica's
\* current view and sequence, with a digest no request has
\* (conflicting_prepare, signed) or with a signature that is not the
\* message's (invalid_signature), is broadcast to the peers.
simulate_byzantine_behavior(n, behavior_type, maxForged) ==
    /\ env.forged < maxForged
    /\ LET signed == PBFTMessage("prepare", pbft[n].view, pbft[n].sequence,
                                 "fake_digest_12345", n, "none")
           unsigned == [PBFTMessage("prepare", pbft[n].view, pbft[n].sequence,
                                    "some_digest", n, "none")
                           EXCEPT !.signature = "invalid_signature_xyz"]
           fake_message == IF behavior_type = "conflicting_prepare" THEN signed ELSE unsigned
       IN net' = net \cup broadcast_message(n, fake_message)
    /\ env' = [env EXCEPT !.forged = @ + 1]
    /\ UNCHANGED <<pbft, raft, lock_table, wait_for_graph, applied, committed, http, polls>>

NextPBFT ==
    \E n \in PbftNodes :
        \/ \E request \in Requests : pbft_client_request(n, request)
        \/ PbftDeliver(n, Responsive)
        \/ PbftResume(n)
        \/ \E behavior_type \in {"conflicting_prepare", "invalid_signature"} :
              simulate_byzantine_behavior(n, behavior_type, MaxForged)

SpecPBFT == Init /\ [][NextPBFT]_vars

\* The replicas with the simulate-byzantine endpoint called at the replicas
\* in Simulating only, often enough for a suspicion count to reach
\* byzantine_threshold.
NextIsolation ==
    \E n \in PbftNodes :
        \/ \E request \in Requests : pbft_client_request(n, request)
        \/ PbftDeliver(n, Responsive)
        \/ PbftResume(n)
        \/ /\ n \in Simulating
           /\ \E behavior_type \in {"conflicting_prepare", "invalid_signature"} :
                 simulate_byzantine_behavior(n, behavior_type, IsolationMaxForged)

SpecIsolation == Init /\ [][NextIsolation]_vars

\* The engine constructed in a cluster whose ALL_NODES lists any number of
\* nodes up to MaxClusterSize, and asked for its status.
InitQuorum ==
    /\ raft = [n \in Nodes |-> RaftInit]
    /\ lock_table = [n \in Nodes |-> LockInit.lock_table]
    /\ wait_for_graph = [n \in Nodes |-> LockInit.wait_for_graph]
    /\ applied = [n \in Nodes |-> <<>>]
    /\ committed = {}
    /\ http = NoHttp
    /\ env = [timeouts |-> 0, errors |-> 0, forged |-> 0]
    /\ \E size \in 1..MaxClusterSize : pbft = [n \in 1..size |-> PbftInit]
    /\ net = {}
    /\ polls = [n \in Nodes |-> NoPoll]

\* GET /pbft/status at replica n: f and quorum_size as __init__ computed
\* them from len(all_nodes).
pbft_status(n) ==
    /\ n \in DOMAIN pbft
    /\ http' = [node |-> n, op |-> "status", code |-> 200,
                f |-> fault_tolerance(Cardinality(DOMAIN pbft)).f,
                quorum_size |-> fault_tolerance(Cardinality(DOMAIN pbft)).quorum_size]
    /\ UNCHANGED <<raft, lock_table, wait_for_graph, applied, committed, env, pbft, net, polls>>

NextQuorum == \E n \in 1..MaxClusterSize : pbft_status(n)

SpecQuorum == InitQuorum /\ [][NextQuorum]_vars

\* sign_message and verify_signature alone: a message built and signed by
\* any node waits to be served at a peer; a copy with other fields and the
\* same signature may be put in flight beside it, and the peers serve what
\* is in flight.
SignedMessages ==
    {PBFTMessage(msg_type, view, sequence, digest, node_id, "none") :
        msg_type \in SignedTypes, view \in 0..MaxView, sequence \in Sequences,
        digest \in SignedDigests, node_id \in PbftNodes}

InitSignature ==
    /\ raft = [n \in Nodes |-> RaftInit]
    /\ lock_table = [n \in Nodes |-> LockInit.lock_table]
    /\ wait_for_graph = [n \in Nodes |-> LockInit.wait_for_graph]
    /\ applied = [n \in Nodes |-> <<>>]
    /\ committed = {}
    /\ http = NoHttp
    /\ env = [timeouts |-> 0, errors |-> 0, forged |-> 0]
    /\ pbft = [n \in PbftNodes |-> PbftInit]
    /\ polls = [n \in Nodes |-> NoPoll]
    /\ \E message \in SignedMessages : \E to \in PbftPeers(message.node_id) :
          net = {[to |-> to, msg |-> message]}

\* Fields of a message in flight are assigned, its signature is kept.
TamperMessage ==
    /\ env.forged < MaxForged
    /\ \E d \in net : \E signed \in SignedMessages :
          /\ d.msg.signature = sign_message(d.msg)
          /\ signed # d.msg
          /\ net' = net \cup {[d EXCEPT !.msg = [signed EXCEPT !.signature = d.msg.signature]]}
    /\ env' = [env EXCEPT !.forged = @ + 1]
    /\ UNCHANGED <<pbft, raft, lock_table, wait_for_graph, applied, committed, http, polls>>

NextSignature ==
    \/ TamperMessage
    \/ \E n \in PbftNodes : PbftDeliver(n, PbftNodes)

SpecSignature == InitSignature /\ [][NextSignature]_vars

\* Four honest replicas that serve every message.  Each replica is slower
\* than the replicas before it in pbft_all_nodes: it serves a request or
\* resumes a call only while the replicas before it have nothing to serve
\* and nothing to resume, and it resumes a call only when it has nothing
\* to serve.  The replicas in Slow serve their backlog in any order, the
\* others in the order pre-prepare, prepare, commit.
Idle(n) == pbft[n].tasks = {} /\ \A d \in net : d.to # n

Turn(n) == \A q \in PbftNodes : q < n => Idle(q)

Phase(msg) ==
    IF msg.msg_type = "pre-prepare" THEN 1 ELSE IF msg.msg_type = "prepare" THEN 2 ELSE 3

InPhaseOrder(n, d) == \A e \in net : e.to = n => Phase(e.msg) >= Phase(d.msg)

NextSlow ==
    \E n \in PbftNodes :
        \/ \E request \in Requests : pbft_client_request(n, request)
        \/ /\ Turn(n)
           /\ \E d \in net : (n \in Slow \/ InPhaseOrder(n, d)) /\ PbftServe(n, d)
        \/ /\ Turn(n)
           /\ \A d \in net : d.to # n
           /\ PbftResume(n)

SpecSlow == Init /\ [][NextSlow]_vars

\* A Byzantine primary: the replicas in Byzantine run no engine, and what
\* they POST to /pbft/message of the honest replicas is any message of
\* sequence 1 carrying their node_id and its signature.  First the primary
\* sends the pre-prepare of one request to the replicas in first and of the
\* other request to the other honest replicas; then it sends prepare and
\* commit messages for either request to every honest replica.  The honest
\* replicas serve their messages as in SpecSlow, none of them slow.
Honest == PbftNodes \ Byzantine

HonestTurn(n) == \A q \in Honest : q < n => Idle(q)

ByzantineMessage(x, msg_type, request) ==
    PBFTMessage(msg_type, 0, 1, compute_digest(request), x,
                IF msg_type = "pre-prepare" THEN request ELSE "none")

Equivocate(x, first) ==
    /\ env.forged = 0
    /\ net' = net \cup {[to |-> q, msg |-> ByzantineMessage(x, "pre-prepare", "r1")] : q \in first}
                  \cup {[to |-> q, msg |-> ByzantineMessage(x, "pre-prepare", "r2")] :
                           q \in Honest \ first}
    /\ env' = [env EXCEPT !.forged = 1]
    /\ UNCHANGED <<pbft, raft, lock_table, wait_for_graph, applied, committed, http, polls>>

ByzantineBroadcast(x, msg_type, request) ==
    /\ env.forged >= 1
    /\ env.forged < EquivocationMaxForged
    /\ net' = net \cup {[to |-> q, msg |-> ByzantineMessage(x, msg_type, request)] : q \in Honest}
    /\ env' = [env EXCEPT !.forged = @ + 1]
    /\ UNCHANGED <<pbft, raft, lock_table, wait_for_graph, applied, committed, http, polls>>

NextEquivocation ==
    \/ \E x \in Byzantine : \E first \in SUBSET Honest : Equivocate(x, first)
    \/ \E x \in Byzantine : \E msg_type \in {"prepare", "commit"} :
          \E request \in EquivocationRequests : ByzantineBroadcast(x, msg_type, request)
    \/ \E n \in Honest :
          /\ HonestTurn(n)
          /\ \E d \in net : InPhaseOrder(n, d) /\ PbftServe(n, d)
    \/ \E n \in Honest :
          /\ HonestTurn(n)
          /\ \A d \in net : d.to # n
          /\ PbftResume(n)

SpecEquivocation == Init /\ [][NextEquivocation]_vars

\* The pre-prepare messages of sequence 1 that a caller of /pbft/message
\* posts: the node_id of the primary or of another replica, either
\* request with its digest, the signature of the message or another text.
PostedPrePrepares ==
    LET signed == {PBFTMessage("pre-prepare", 0, 1, compute_digest(request), x, request) :
                      x \in PostedSenders, request \in EquivocationRequests}
    IN signed \cup {[m EXCEPT !.signature = "invalid_signature_xyz"] : m \in signed}

\* POST /pbft/message at replica n with the JSON text of message.
PostMessage(n, message, maxPosted) ==
    /\ env.forged < maxPosted
    /\ net' = net \cup {[to |-> n, msg |-> message]}
    /\ env' = [env EXCEPT !.forged = @ + 1]
    /\ UNCHANGED <<pbft, raft, lock_table, wait_for_graph, applied, committed, http, polls>>

\* The replicas with pre-prepare messages posted to them by any caller,
\* before or after the client's request reaches the primary; they serve
\* their messages in the order of SpecSlow, none of them slow.
NextPrePrepare ==
    \E n \in PbftNodes :
        \/ \E request \in EquivocationRequests : pbft_client_request(n, request)
        \/ \E message \in PostedPrePrepares : PostMessage(n, message, PrePrepareMaxPosted)
        \/ /\ Turn(n)
           /\ \E d \in net : InPhaseOrder(n, d) /\ PbftServe(n, d)
        \/ /\ Turn(n)
           /\ \A d \in net : d.to # n
           /\ PbftResume(n)

SpecPrePrepare == Init /\ [][NextPrePrepare]_vars

\* ------------------------------------------- the cluster, every peer up
\* The cluster as main.py deploys it (no commit monitor runs) with every
\* peer reachable: a vote round runs to its end, and no AppendEntries ends
\* in a transport error.  startup_raft runs once on every node; leader_loop
\* starts a round every heartbeat_interval for as long as the node is
\* Leader; every AppendEntries is handled and answered within the deadline
\* of the transport.
NextLive ==
    \E n \in Nodes :
        \/ Startup(n)
        \/ Election(n, LiveMaxTerm)
        \/ HeartbeatTick(n)
        \/ AppendDeliver(n)
        \/ AppendReplyArrives(n)
        \/ AppendRpcCancelled(n)
        \/ Submit(n, Command("acquire_lock", "A", "exclusive", n), LiveMaxLog)

SpecLive ==
    /\ Init
    /\ [][NextLive]_vars
    /\ \A n \in Nodes :
          /\ WF_vars(Startup(n))
          /\ WF_vars(HeartbeatTick(n))
          /\ WF_vars(AppendDeliver(n))
          /\ WF_vars(AppendReplyArrives(n))
          /\ WF_vars(AppendRpcCancelled(n))

\* --------------------------------------------- handlers, state by state
\* The handlers on engines put into a chosen state, as the unit tests do
\* (raft.current_term = 5, raft.state = CANDIDATE, raft.log = [...]) before
\* they call a handler.  One node is in the middle of an RPC to one of its
\* peers; the peer is in any state of terms up to HandlersMaxTerm with a
\* log of up to HandlersMaxLog entries.
Entry(term, requester) ==
    [term |-> term, command |-> Command("acquire_lock", "A", "exclusive", requester)]

\* Logs whose entries carry terms 1..maxTerm in nondecreasing order.
LogsUpTo(maxTerm, requester) ==
    UNION {{[i \in 1..k |-> Entry(ts[i], requester)] :
               ts \in {x \in [1..k -> 1..maxTerm] : \A i \in 1..(k - 1) : x[i] <= x[i + 1]}} :
           k \in 0..HandlersMaxLog}

\* The engine of node p in some role: a Candidate has voted for itself, a
\* Leader has voted for itself, knows itself as leader_id and its heartbeat
\* task sleeps.
PeerStates(p) ==
    {[RaftInit EXCEPT !.state = x[1], !.current_term = x[2], !.voted_for = x[3],
                      !.log = x[4], !.commit_index = x[5],
                      !.election_timer = (x[1] # "LEADER"), !.started = TRUE,
                      !.leader_id = IF x[1] = "LEADER" THEN p ELSE None,
                      !.heartbeat = IF x[1] = "LEADER" THEN [NoHeartbeat EXCEPT !.pc = "sleep"]
                                    ELSE NoHeartbeat] :
        x \in {y \in {"FOLLOWER", "CANDIDATE", "LEADER"} \X (0..HandlersMaxTerm)
                        \X (Nodes \cup {None}) \X LogsUpTo(HandlersMaxTerm, p)
                        \X (0..HandlersMaxLog) :
                  /\ y[1] # "FOLLOWER" => (y[3] = p /\ y[2] >= 1)
                  /\ y[3] # None => y[2] >= 1
                  /\ \A i \in 1..Len(y[4]) : y[4][i].term <= y[2]
                  /\ y[5] <= Len(y[4])}}

\* Node n, a Candidate that has reached the RPC to peer number idx of its
\* vote round (lines 95-103).
CandidateStates(n, idx) ==
    {VoteRoundNext([RaftInit EXCEPT !.state = "CANDIDATE", !.current_term = x[1],
                                    !.voted_for = n, !.log = x[2], !.commit_index = x[3],
                                    !.election_timer = TRUE, !.started = TRUE],
                   n, idx, x[4]) :
        x \in {y \in (1..HandlersMaxTerm) \X LogsUpTo(HandlersMaxTerm, n)
                        \X (0..HandlersMaxLog) \X (1..idx) :
                  /\ \A i \in 1..Len(y[2]) : y[2][i].term < y[1]
                  /\ y[3] <= Len(y[2])}}

\* Node n, a Leader that has reached the RPC to peer number idx of a round
\* of _send_append_entries (lines 160-173).
LeaderStates(n, idx) ==
    {HeartbeatNext([RaftInit EXCEPT !.state = "LEADER", !.current_term = x[1],
                                    !.voted_for = n, !.leader_id = n, !.log = x[2],
                                    !.commit_index = x[3],
                                    !.next_index[Peers(n)[idx]] = x[4], !.started = TRUE],
                   n, idx) :
        x \in {y \in (1..HandlersMaxTerm) \X LogsUpTo(HandlersMaxTerm, n)
                        \X (0..HandlersMaxLog) \X (1..(HandlersMaxLog + 1)) :
                  /\ \A i \in 1..Len(y[2]) : y[2][i].term <= y[1]
                  /\ y[3] <= Len(y[2])
                  /\ y[4] <= Len(y[2]) + 1}}

InitHandlers ==
    /\ \E n \in Nodes : \E idx \in 1..Len(Peers(n)) :
          raft \in {[q \in Nodes |-> IF q = n THEN s
                                     ELSE IF q = Peers(n)[idx] THEN r
                                     ELSE RaftInit] :
                       s \in CandidateStates(n, idx) \cup LeaderStates(n, idx),
                       r \in PeerStates(Peers(n)[idx])}
    /\ lock_table = [n \in Nodes |-> LockInit.lock_table]
    /\ wait_for_graph = [n \in Nodes |-> LockInit.wait_for_graph]
    /\ applied = [n \in Nodes |-> <<>>]
    /\ committed = {}
    /\ http = NoHttp
    /\ env = [timeouts |-> 0, errors |-> 0, forged |-> 0]
    /\ pbft = [n \in PbftNodes |-> PbftInit]
    /\ net = {}
    /\ polls = [n \in Nodes |-> NoPoll]

\* The request is handled by the peer, the reply is consumed by the
\* caller, a lock manager submits a command.
NextHandlers ==
    \E n \in Nodes :
        \/ VoteDeliver(n)
        \/ VoteReplyArrives(n)
        \/ AppendDeliver(n)
        \/ AppendReplyArrives(n)
        \/ Submit(n, Command("acquire_lock", "A", "exclusive", n), HandlersMaxLog)

SpecHandlers == InitHandlers /\ [][NextHandlers]_vars

\* C1: at most one node is Leader for any given term.
C1_OneLeaderPerTerm ==
    \A a, b \in Nodes :
        (a # b /\ raft[a].state = "LEADER" /\ raft[b].state = "LEADER")
            => raft[a].current_term # raft[b].current_term

\* C2: Log Matching: if the logs of two nodes both have an entry at index i
\* with the same term, the two logs are identical at every index 1..i.
C2_LogMatching ==
    \A a, b \in Nodes :
        \A i \in 1..Min2(Len(raft[a].log), Len(raft[b].log)) :
            raft[a].log[i].term = raft[b].log[i].term
                => \A k \in 1..i : raft[a].log[k] = raft[b].log[k]

\* C3: State-Machine Safety: two nodes that each passed the entry at index i
\* to the apply callback passed the same command.
C3_StateMachineSafety ==
    \A a, b \in Nodes :
        \A i \in 1..Len(applied[a]) :
            \A j \in 1..Len(applied[b]) :
                applied[a][i].index = applied[b][j].index
                    => applied[a][i].command = applied[b][j].command

C8_ApplyInOrder ==
    \A n \in Nodes :
        /\ \A i \in 1..Len(applied[n]) : applied[n][i].index = i
        /\ Len(applied[n]) = raft[n].last_applied

\* C9: on every node last_applied <= commit_index <= |log| in every state,
\* and last_applied never decreases.
C9_IndexOrder ==
    /\ [](\A n \in Nodes : /\ raft[n].last_applied <= raft[n].commit_index
                           /\ raft[n].commit_index <= Len(raft[n].log))
    /\ [][\A n \in Nodes : raft'[n].last_applied >= raft[n].last_applied]_vars

\* C10: Leader Completeness: an entry over which a leader's commit_index
\* advanced in term T is in the log, at the same index, of every Leader of a
\* term greater than T.
C10_LeaderCompleteness ==
    \A c \in committed :
        \A n \in Nodes :
            (raft[n].state = "LEADER" /\ raft[n].current_term > c.term)
                => /\ Len(raft[n].log) >= c.index
                   /\ raft[n].log[c.index] = c.entry

\* C11: while a node is Leader its log only grows by appending: no step
\* that leaves it Leader removes or replaces an entry of its log.
C11_LeaderAppendOnly ==
    [][\A n \in Nodes :
          (raft[n].state = "LEADER" /\ raft'[n].state = "LEADER")
              => /\ Len(raft'[n].log) >= Len(raft[n].log)
                 /\ SubSeq(raft'[n].log, 1, Len(raft[n].log)) = raft[n].log]_vars

C13_OneVotePerTerm ==
    [][\A p \in Nodes :
          /\ (raft[p].voted_for # None /\ raft'[p].current_term = raft[p].current_term)
                => raft'[p].voted_for = raft[p].voted_for
          /\ \A n \in Nodes \ {p} :
                (/\ raft[n].vote_round.pc = "rpc" /\ raft[n].vote_round.stage = "req"
                 /\ raft'[n].vote_round.stage = "resp"
                 /\ Peers(n)[raft[n].vote_round.idx] = p
                 /\ raft[n].vote_round.req.term = raft[p].current_term
                 /\ raft[p].voted_for \notin {None, raft[n].vote_round.req.candidate_id})
                    => ~raft'[n].vote_round.resp.vote_granted]_vars

\* A node that voted for another candidate in the term of the request, and
\* whose log is not ahead of the requester's, has answered vote_granted =
\* false.
C13_Witness ==
    \E n \in Nodes :
        LET v == raft[n].vote_round
            p == Peers(n)[v.idx]
        IN /\ v.pc = "rpc" /\ v.stage = "resp"
           /\ ~v.resp.vote_granted
           /\ v.resp.term = v.req.term
           /\ raft[p].voted_for \notin {None, n}
           /\ VoteLogOk(raft[p], v.req)

\* C14: handle_request_vote answers vote_granted = true exactly when the
\* request's term is at least current_term, voted_for (None after a step
\* down to a higher term) is None or the candidate, and last_log_term is
\* above the term of the local last entry or equal to it with
\* last_log_index at least the local log length; a granted vote is recorded
\* in voted_for.
C14_GrantExactly ==
    [][\A n \in Nodes :
          (/\ raft[n].vote_round.pc = "rpc" /\ raft[n].vote_round.stage = "req"
           /\ raft'[n].vote_round.stage = "resp")
              => LET req == raft[n].vote_round.req
                     p == Peers(n)[raft[n].vote_round.idx]
                     local == raft[p]
                     voted == IF req.term > local.current_term THEN None ELSE local.voted_for
                     local_last_term == IF Len(local.log) = 0 THEN 0
                                        ELSE local.log[Len(local.log)].term
                     granted == raft'[n].vote_round.resp.vote_granted
                 IN /\ granted <=>
                          /\ req.term >= local.current_term
                          /\ voted \in {None, req.candidate_id}
                          /\ \/ req.last_log_term > local_last_term
                             \/ /\ req.last_log_term = local_last_term
                                /\ req.last_log_index >= Len(local.log)
                    /\ granted => raft'[p].voted_for = req.candidate_id]_vars

\* A vote was granted to a candidate whose last entry is of a higher term
\* than the voter's last entry, and is recorded in voted_for.
C14_Witness ==
    \E n \in Nodes :
        LET v == raft[n].vote_round
            p == Peers(n)[v.idx]
        IN /\ v.pc = "rpc" /\ v.stage = "resp"
           /\ v.resp.vote_granted
           /\ raft[p].voted_for = n
           /\ v.req.last_log_term > _get_last_log_term(raft[p])

\* C15: a node that handles a RequestVote or an AppendEntries, or consumes
\* the reply to one of its own RPCs (an RPC that is not cancelled and does
\* not end in a transport error), with a term above its current_term is
\* Follower of that term when the handler is done, whatever its role was.
C15_StepDownOnHigherTerm ==
    [][\A n \in Nodes :
          LET v == raft[n].vote_round
              h == raft[n].heartbeat
          IN /\ (/\ v.pc = "rpc" /\ v.stage = "req" /\ raft'[n].vote_round.stage = "resp"
                 /\ v.req.term > raft[Peers(n)[v.idx]].current_term)
                    => /\ raft'[Peers(n)[v.idx]].state = "FOLLOWER"
                       /\ raft'[Peers(n)[v.idx]].current_term = v.req.term
             /\ (/\ h.pc = "rpc" /\ h.stage = "req" /\ raft'[n].heartbeat.stage = "resp"
                 /\ h.req.term > raft[Peers(n)[h.idx]].current_term)
                    => /\ raft'[Peers(n)[h.idx]].state = "FOLLOWER"
                       /\ raft'[Peers(n)[h.idx]].current_term = h.req.term
             /\ (/\ v.pc = "rpc" /\ v.stage = "resp" /\ raft'[n].vote_round # v
                 /\ ~v.cancel /\ ~raft'[n].vote_round.cancel /\ env' = env
                 /\ v.resp.term > raft[n].current_term)
                    => /\ raft'[n].state = "FOLLOWER"
                       /\ raft'[n].current_term = v.resp.term
             /\ (/\ h.pc = "rpc" /\ h.stage = "resp" /\ raft'[n].heartbeat # h
                 /\ ~h.cancel /\ ~raft'[n].heartbeat.cancel /\ env' = env
                 /\ h.resp.term > raft[n].current_term)
                    => /\ raft'[n].state = "FOLLOWER"
                       /\ raft'[n].current_term = h.resp.term]_vars

\* A node that was Leader (it still names itself as leader_id) has handled
\* a RequestVote of a higher term: it is Follower of the term of the
\* request and its reply is on the way.
C15_Witness ==
    \E n \in Nodes :
        LET v == raft[n].vote_round
            p == Peers(n)[v.idx]
        IN /\ v.pc = "rpc" /\ v.stage = "resp"
           /\ raft[p].leader_id = p
           /\ raft[p].state = "FOLLOWER"
           /\ raft[p].current_term = v.req.term

\* C16: handle_append_entries answers success = false, with log and
\* commit_index as they were, exactly when the request's term is below
\* current_term, or prev_log_index > 0 and the log is shorter than
\* prev_log_index or its entry at prev_log_index is not of prev_log_term;
\* otherwise it answers success = true.
C16_RejectExactly ==
    [][\A n \in Nodes :
          (/\ raft[n].heartbeat.pc = "rpc" /\ raft[n].heartbeat.stage = "req"
           /\ raft'[n].heartbeat.stage = "resp")
              => LET req == raft[n].heartbeat.req
                     p == Peers(n)[raft[n].heartbeat.idx]
                     local == raft[p]
                     rejected == \/ req.term < local.current_term
                                 \/ /\ req.prev_log_index > 0
                                    /\ \/ Len(local.log) < req.prev_log_index
                                       \/ local.log[req.prev_log_index].term # req.prev_log_term
                 IN /\ raft'[n].heartbeat.resp.success <=> ~rejected
                    /\ rejected => /\ raft'[p].log = local.log
                                   /\ raft'[p].commit_index = local.commit_index]_vars

\* An AppendEntries of the receiver's term or above was answered success =
\* false because the receiver's entry at prev_log_index is of another term
\* than prev_log_term.
C16_Witness ==
    \E n \in Nodes :
        LET h == raft[n].heartbeat
            p == Peers(n)[h.idx]
        IN /\ h.pc = "rpc" /\ h.stage = "resp"
           /\ ~h.resp.success
           /\ h.resp.term = h.req.term
           /\ h.req.prev_log_index > 0
           /\ h.req.prev_log_index <= Len(raft[p].log)
           /\ raft[p].log[h.req.prev_log_index].term # h.req.prev_log_term

\* C17 as stated: after a successful handle_append_entries the log is the
\* old log cut to its first prev_log_index entries followed by entries, and
\* commit_index is min(leader_commit, |log|).
C17_TruncateAndMin ==
    [][\A n \in Nodes :
          (/\ raft[n].heartbeat.pc = "rpc" /\ raft[n].heartbeat.stage = "req"
           /\ raft'[n].heartbeat.stage = "resp"
           /\ raft'[n].heartbeat.resp.success)
              => LET req == raft[n].heartbeat.req
                     p == Peers(n)[raft[n].heartbeat.idx]
                 IN /\ raft'[p].log = SubSeq(raft[p].log, 1, req.prev_log_index) \o req.entries
                    /\ raft'[p].commit_index =
                          IF req.leader_commit <= Len(raft'[p].log)
                          THEN req.leader_commit ELSE Len(raft'[p].log)]_vars

\* C17: after a successful handle_append_entries with entries the log is
\* the old log cut to its first prev_log_index entries followed by entries,
\* and without entries the log is as it was; commit_index is
\* min(leader_commit, |log|) if leader_commit is above the old
\* commit_index, and as it was otherwise.
C17_AppendOnSuccess ==
    [][\A n \in Nodes :
          (/\ raft[n].heartbeat.pc = "rpc" /\ raft[n].heartbeat.stage = "req"
           /\ raft'[n].heartbeat.stage = "resp"
           /\ raft'[n].heartbeat.resp.success)
              => LET req == raft[n].heartbeat.req
                     p == Peers(n)[raft[n].heartbeat.idx]
                 IN /\ raft'[p].log =
                          IF req.entries # <<>>
                          THEN SubSeq(raft[p].log, 1, req.prev_log_index) \o req.entries
                          ELSE raft[p].log
                    /\ raft'[p].commit_index =
                          IF req.leader_commit <= raft[p].commit_index
                          THEN raft[p].commit_index
                          ELSE IF req.leader_commit <= Len(raft'[p].log)
                          THEN req.leader_commit ELSE Len(raft'[p].log)]_vars

\* An AppendEntries without entries has succeeded at a node whose log is
\* longer than prev_log_index.
C17_Witness ==
    \E n \in Nodes :
        LET h == raft[n].heartbeat
            p == Peers(n)[h.idx]
        IN /\ h.pc = "rpc" /\ h.stage = "resp"
           /\ h.resp.success
           /\ h.req.entries = <<>>
           /\ Len(raft[p].log) > h.req.prev_log_index

\* C18: append_log_entry(command) at a Leader returns true and changes the
\* engine only by adding the entry {term: current_term, command} at the end
\* of its log; at a Follower or a Candidate it returns false and changes
\* nothing.  A log that changes in a step in which no AppendEntries is
\* handled is the log of a Leader and is extended by exactly that entry.
C18_AppendLogEntry ==
    /\ [](\A n \in Nodes : \A c \in Nodes :
             LET command == Command("acquire_lock", "A", "exclusive", c)
                 call == append_log_entry(raft[n], command)
             IN IF raft[n].state = "LEADER"
                THEN /\ call.ok
                     /\ Len(call.node.log) = Len(raft[n].log) + 1
                     /\ SubSeq(call.node.log, 1, Len(raft[n].log)) = raft[n].log
                     /\ call.node.log[Len(call.node.log)] =
                           [term |-> raft[n].current_term, command |-> command]
                     /\ call.node = [raft[n] EXCEPT !.log = call.node.log]
                ELSE ~call.ok /\ call.node = raft[n])
    /\ [][\A n \in Nodes :
             (/\ raft'[n].log # raft[n].log
              /\ \A q \in Nodes : raft'[q].heartbeat = raft[q].heartbeat)
                 => /\ raft[n].state = "LEADER"
                    /\ raft'[n].log =
                          raft[n].log \o <<[term |-> raft[n].current_term,
                                            command |-> Command("acquire_lock", "A",
                                                                "exclusive", n)]>>]_vars

\* A Leader in the middle of an AppendEntries has appended a command: its
\* log is longer than what the request in flight covers and ends with an
\* entry of its current term.
C18_Witness ==
    \E n \in Nodes :
        LET h == raft[n].heartbeat
        IN /\ raft[n].state = "LEADER"
           /\ h.pc = "rpc"
           /\ Len(raft[n].log) > h.req.prev_log_index + Len(h.req.entries)
           /\ raft[n].log[Len(raft[n].log)] =
                 [term |-> raft[n].current_term,
                  command |-> Command("acquire_lock", "A", "exclusive", n)]

\* C19: a command in the log of a Leader is, unless the node stops being
\* Leader, eventually at the same index in every log, committed on every
\* node and applied on every node, the lock table of every node showing
\* the requester as owner.
C19_EventuallyApplied ==
    \A n \in Nodes :
        (raft[n].state = "LEADER" /\ Len(raft[n].log) >= 1)
            ~> \/ raft[n].state # "LEADER"
               \/ \A q \in Nodes :
                     IF Len(raft[q].log) >= 1 /\ Len(raft[n].log) >= 1
                     THEN /\ raft[q].log[1] = raft[n].log[1]
                          /\ raft[q].commit_index >= 1
                          /\ raft[q].last_applied >= 1
                          /\ InSeq(raft[n].log[1].command.requester, lock_table[q]["A"].owners)
                     ELSE FALSE

\* C20: in the cluster of 3 nodes, once exactly one election timer has
\* expired and as long as no RPC has ended in a transport error, the node
\* whose timer expired has current_term 1 and its own vote, is Candidate
\* while its vote round runs and Leader from the end of the round on, and
\* no other node is Leader.
C20_SingleElection ==
    (env.timeouts = 1 /\ env.errors = 0)
        => \E c \in Nodes :
              /\ raft[c].current_term = 1
              /\ raft[c].voted_for = c
              /\ \/ raft[c].state = "CANDIDATE" /\ raft[c].vote_round.pc = "rpc"
                 \/ raft[c].state = "LEADER" /\ raft[c].vote_round.pc = "none"
              /\ \A q \in Nodes \ {c} : raft[q].state = "FOLLOWER"

\* After the only timer expiry a node is Leader of term 1 and its
\* heartbeats have reached both other nodes, which follow it in term 1.
C20_Witness ==
    /\ env.timeouts = 1 /\ env.errors = 0
    /\ \E c \in Nodes :
          /\ raft[c].state = "LEADER" /\ raft[c].current_term = 1
          /\ \A q \in Nodes \ {c} :
                /\ raft[q].state = "FOLLOWER"
                /\ raft[q].current_term = 1
                /\ raft[q].leader_id = c

C22_PhasesInOrder ==
    \A r \in PbftNodes : \A s \in Sequences :
        LET p == pbft[r]
            own == {i \in 1..Len(p.commit_log[s]) : p.commit_log[s][i].node_id = r}
            stored == p.pre_prepare_log[s].msg_type = "pre-prepare"
            prepared == stored /\ Len(p.prepare_log[s]) >= quorum_size
        IN /\ Cardinality(own) <= 1
           /\ own # {} => prepared
           /\ s \in p.executed
                 => prepared /\ own # {} /\ Len(p.commit_log[s]) >= quorum_size

\* C23: once the request has been submitted to the primary and every
\* message has been served and every call has returned, all four replicas
\* have executed sequence 1 and report the same last_executed.
C23_AllExecute ==
    (/\ \E n \in PbftNodes : pbft[n].sequence >= 1
     /\ \A n \in PbftNodes : Idle(n))
        => /\ \A n \in PbftNodes : 1 \in pbft[n].executed
           /\ \A n, q \in PbftNodes : pbft[n].last_executed = pbft[q].last_executed

\* C24: apply_lock_command called with acquire_lock for the lock and the
\* requester of the acquire_lock applied just before it leaves the lock
\* table as it was, and the owners hold the requester exactly once.
C24_AcquireTwice ==
    [][\A n \in Nodes :
          (/\ Len(applied[n]) >= 1
           /\ Len(applied'[n]) = Len(applied[n]) + 1
           /\ applied[n][Len(applied[n])].command.type = "acquire_lock"
           /\ applied'[n][Len(applied'[n])].command.type = "acquire_lock"
           /\ applied'[n][Len(applied'[n])].command.lock_name
                 = applied[n][Len(applied[n])].command.lock_name
           /\ applied'[n][Len(applied'[n])].command.requester
                 = applied[n][Len(applied[n])].command.requester)
              => LET c == applied'[n][Len(applied'[n])].command
                     owners == lock_table'[n][c.lock_name].owners
                 IN /\ lock_table'[n] = lock_table[n]
                    /\ Cardinality({i \in 1..Len(owners) : owners[i] = c.requester}) = 1]_vars

\* acquire_lock of lock A has been applied for requester 2 and then twice
\* in a row for requester 1, the second time with the other lock type.
C24_Witness ==
    \E n \in Nodes :
        /\ Len(applied[n]) = 3
        /\ \A i \in 1..3 : /\ applied[n][i].command.type = "acquire_lock"
                           /\ applied[n][i].command.lock_name = "A"
        /\ applied[n][1].command.requester = 2
        /\ applied[n][2].command.requester = 1
        /\ applied[n][3].command.requester = 1
        /\ applied[n][2].command.lock_type = "shared"
        /\ applied[n][3].command.lock_type = "exclusive"
        /\ lock_table[n]["A"].owners = <<2, 1>>
        /\ lock_table[n]["A"].type = "shared"

C26_SignatureBinds ==
    \A a \in net : \A b \in net :
        /\ a.msg.signature = sign_message(a.msg) => verify_signature(a.msg)
        /\ (/\ a.msg.signature = sign_message(a.msg)
            /\ b.msg.signature = a.msg.signature
            /\ <<b.msg.msg_type, b.msg.view, b.msg.sequence, b.msg.digest, b.msg.node_id>>
                  # <<a.msg.msg_type, a.msg.view, a.msg.sequence, a.msg.digest, a.msg.node_id>>)
              => ~verify_signature(b.msg)

\* C27: the engine of a cluster of n >= 1 nodes reports f = floor((n-1)/3)
\* and quorum_size = 2f + 1, which is 3 for n = 4 and 5 for n = 7, and its
\* quorum_size is greater than n/2.
C27_QuorumMajority ==
    http.op = "status"
        => LET n == Cardinality(DOMAIN pbft)
           IN /\ http.f = (n - 1) \div 3
              /\ http.quorum_size = 2 * http.f + 1
              /\ n = 4 => http.quorum_size = 3
              /\ n = 7 => http.quorum_size = 5
              /\ 2 * http.quorum_size > n

\* C28: two honest replicas that have both executed sequence 1 have
\* executed the same request, whatever the Byzantine primary sent.
C28_Agreement ==
    \A a \in Honest : \A b \in Honest :
        (1 \in pbft[a].executed /\ 1 \in pbft[b].executed)
            => pbft[a].pre_prepare_log[1].request = pbft[b].pre_prepare_log[1].request

\* C29: a node becomes Leader only in a step it enters as Candidate of the
\* term it then leads, with a tally that the vote of that step can bring
\* above half of the nodes: a node that has stepped down, or has moved to
\* another term, since it asked for the votes does not become Leader.
C29_LeaderOnlyAsCandidate ==
    [][\A n \in Nodes :
          (raft[n].state # "LEADER" /\ raft'[n].state = "LEADER")
              => /\ raft[n].state = "CANDIDATE"
                 /\ raft'[n].current_term = raft[n].current_term
                 /\ raft[n].vote_round.pc = "rpc"
                 /\ raft[n].vote_round.votes + 1 > total_nodes \div 2]_vars

\* C30: a step in which a node puts a new AppendEntries in flight leaves it
\* Leader of the term the message carries, and a step that ends a heartbeat
\* round with a higher commit_index is taken by a Leader: a node that has
\* stepped down in the middle of a round sends nothing more and commits
\* nothing more.
C30_OnlyLeaderSends ==
    [][\A n \in Nodes :
          /\ (/\ raft'[n].heartbeat.pc = "rpc"
              /\ \/ raft[n].heartbeat.pc # "rpc"
                 \/ raft'[n].heartbeat.idx # raft[n].heartbeat.idx)
                 => /\ raft'[n].state = "LEADER"
                    /\ raft'[n].heartbeat.req.term = raft'[n].current_term
          /\ (/\ raft[n].heartbeat.pc = "rpc"
              /\ raft'[n].heartbeat.pc = "sleep"
              /\ raft'[n].commit_index > raft[n].commit_index)
                 => raft[n].state = "LEADER"]_vars

\* C31: for every sequence, the prepare log and the commit log of a replica
\* hold at most one message of each sender, the replica's own prepare and
\* own commit included.
C31_OnePerSender ==
    \A r \in PbftNodes : \A s \in Sequences :
        /\ \A i, j \in 1..Len(pbft[r].prepare_log[s]) :
              i # j => pbft[r].prepare_log[s][i].node_id # pbft[r].prepare_log[s][j].node_id
        /\ \A i, j \in 1..Len(pbft[r].commit_log[s]) :
              i # j => pbft[r].commit_log[s][i].node_id # pbft[r].commit_log[s][j].node_id

C34_ViolationCounted ==
    [][\A r \in PbftNodes : \A d \in net :
          LET m == d.msg
              stored == pbft[r].pre_prepare_log[m.sequence]
              differs == stored.msg_type # "none" /\ stored.digest # m.digest
              violation ==
                  \/ m.msg_type = "pre-prepare" /\ m.node_id # pbft[r].primary_id
                  \/ ~verify_signature(m)
                  \/ m.msg_type \in {"pre-prepare", "prepare", "commit"} /\ differs
          IN (d.to = r /\ d \notin net' /\ violation)
                 => /\ pbft'[r] = [pbft[r] EXCEPT !.suspicious_nodes[m.node_id] = @ + 1]
                    /\ net' = net \ {d}]_vars

\* C35: a replica that serves a pre-prepare stores it and emits its own
\* prepare exactly when the message carries the primary's node_id, its
\* signature verifies and no pre-prepare with another digest is stored for
\* the sequence, and otherwise leaves its logs as they are; and no step
\* replaces the digest stored for a sequence.
C35_PrePrepareAccepted ==
    [][\A r \in PbftNodes :
          /\ \A d \in net :
                LET m == d.msg
                    stored == pbft[r].pre_prepare_log[m.sequence]
                    accept == /\ m.node_id = pbft[r].primary_id
                              /\ verify_signature(m)
                              /\ ~(stored.msg_type # "none" /\ stored.digest # m.digest)
                    prepare == PBFTMessage("prepare", pbft[r].view, m.sequence, m.digest, r, "none")
                IN (d.to = r /\ d \notin net' /\ m.msg_type = "pre-prepare")
                       => IF accept
                          THEN /\ pbft'[r].pre_prepare_log[m.sequence] = m
                               /\ pbft'[r].prepare_log[m.sequence]
                                     = Append(pbft[r].prepare_log[m.sequence], prepare)
                               /\ \A q \in PbftPeers(r) : [to |-> q, msg |-> prepare] \in net'
                          ELSE /\ pbft'[r].pre_prepare_log = pbft[r].pre_prepare_log
                               /\ pbft'[r].prepare_log = pbft[r].prepare_log
                               /\ pbft'[r].commit_log = pbft[r].commit_log
                               /\ net' = net \ {d}
          /\ \A s \in Sequences :
                pbft[r].pre_prepare_log[s].msg_type # "none"
                    => pbft'[r].pre_prepare_log[s].digest = pbft[r].pre_prepare_log[s].digest]_vars

\* C36: a step in which the AppendEntries RPC of node n to a peer ends in a
\* transport error (the heartbeat round moves on, the error is counted, no
\* vote round moves) leaves next_index and match_index of that peer as
\* they were.
C36_TransportErrorIgnored ==
    [][\A n \in Nodes :
          (/\ raft[n].heartbeat.pc = "rpc"
           /\ raft'[n].heartbeat # raft[n].heartbeat
           /\ raft'[n].vote_round = raft[n].vote_round
           /\ env'.errors = env.errors + 1)
              => LET p == Peers(n)[raft[n].heartbeat.idx]
                 IN /\ raft'[n].next_index[p] = raft[n].next_index[p]
                    /\ raft'[n].match_index[p] = raft[n].match_index[p]]_vars

\* C37: a step in which a peer handles an AppendEntries whose term is at
\* least its current_term leaves the peer in the Follower role with
\* leader_id naming the sender, whatever its role was.
C37_FollowerAfterAppend ==
    [][\A n \in Nodes :
          (/\ raft[n].heartbeat.pc = "rpc"
           /\ raft[n].heartbeat.stage = "req"
           /\ raft'[n].heartbeat.pc = "rpc"
           /\ raft'[n].heartbeat.stage = "resp"
           /\ raft'[n].heartbeat.idx = raft[n].heartbeat.idx)
              => LET p == Peers(n)[raft[n].heartbeat.idx]
                     m == raft[n].heartbeat.req
                 IN m.term >= raft[p].current_term
                        => /\ raft'[p].state = "FOLLOWER"
                           /\ raft'[p].leader_id = m.leader_id]_vars

\* C38: applying release_lock changes nothing when the requester is not an
\* owner of the lock; otherwise the requester leaves the owners, and when
\* no owner is left and waiters is not empty, the head of waiters, and only
\* it, leaves waiters and becomes the owner with the type it asked for.
\* The other locks are never touched.
C38_ReleaseApplied ==
    [][\A n \in Nodes :
          (/\ Len(applied'[n]) = Len(applied[n]) + 1
           /\ applied'[n][Len(applied'[n])].command.type = "release_lock")
              => LET c == applied'[n][Len(applied'[n])].command
                     e == lock_table[n][c.lock_name]
                     rest == SelectSeq(e.owners, LAMBDA o : o # c.requester)
                 IN IF ~(e.present /\ InSeq(c.requester, e.owners))
                    THEN /\ lock_table'[n] = lock_table[n]
                         /\ wait_for_graph'[n] = wait_for_graph[n]
                    ELSE /\ \A l \in LockNames \ {c.lock_name} :
                               lock_table'[n][l] = lock_table[n][l]
                         /\ lock_table'[n][c.lock_name] =
                               IF rest = <<>> /\ e.waiters # <<>>
                               THEN [e EXCEPT !.owners = <<e.waiters[1][1]>>,
                                              !.type = e.waiters[1][2],
                                              !.waiters = Tail(e.waiters)]
                               ELSE [e EXCEPT !.owners = rest]]_vars

\* C38 witness: lock A, held by node 2 alone, has been released with two
\* requests of node 1 waiting, the exclusive one first: node 1 holds A
\* exclusively and its shared request still waits.
C38_Witness ==
    /\ applied[1] = <<[index |-> 1, command |-> Command("acquire_lock", "A", "exclusive", 2)],
                      [index |-> 2, command |-> Command("release_lock", "A", "exclusive", 2)]>>
    /\ lock_table[1]["A"].owners = <<1>>
    /\ lock_table[1]["A"].type = "exclusive"
    /\ lock_table[1]["A"].waiters = << <<1, "shared">> >>

\* C39: in the process of a Leader, every edge u -> v of the wait-for graph
\* is a current wait: some lock that v owns has a request of u among its
\* waiters.
C39_EdgesAreWaits ==
    \A n \in Nodes :
        raft[n].state = "LEADER"
            => \A u, v \in Nodes :
                  (wait_for_graph[n][u].present /\ InSeq(v, wait_for_graph[n][u].edges))
                      => \E l \in LockNames :
                            /\ lock_table[n][l].present
                            /\ InSeq(v, lock_table[n][l].owners)
                            /\ \E i \in 1..Len(lock_table[n][l].waiters) :
                                  lock_table[n][l].waiters[i][1] = u

\* C40: a node that is not Leader does not name itself as leader_id, and
\* no lock endpoint hands a request on to the node it runs on.
C40_NoSelfForward ==
    /\ \A n \in Nodes : raft[n].state # "LEADER" => raft[n].leader_id # n
    /\ (http.op \in {"acquire", "release"} /\ http.code = 0) => http.forward_to # http.node
====
